---- MODULE Spec2Model ----
(***************************************************************************)
(* Model of the V2 hypothesis pipeline of summa_technologica:              *)
(* run_summa_v2 (crew_v2.py) with its stage runner, the paper retriever    *)
(* (semantic_scholar.py), the normalizers and the pairwise ranker it       *)
(* calls, and the contract validator (v2_contracts.py).                    *)
(* The ranker, the Summa Renderer and the composer stage of                *)
(* crew_v2_postprocess.py and crew_v2_stages.py, which run_summa_v2 does   *)
(* not call, are modelled as functions and applied on their own (SpecFn).  *)
(*                                                                         *)
(* Texts are sequences of tokens; the token SP is a whitespace character,  *)
(* so that str.strip() and "non-empty after trimming" are computed.        *)
(* One action is one blocking call of the controller (an oracle attempt or *)
(* a search request) together with all the controller code that runs up to *)
(* the next blocking call or the return.                                   *)
(***************************************************************************)
EXTENDS Integers, Sequences, FiniteSets, TLC

VARIABLES
    question,              \* argument `question` of run_summa_v2
    top,                   \* argument `top` of run_summa_v2
    pc,                    \* the controller's position
    attempt,               \* loop variable of _run_stage_with_retry
    retry_error,           \* retry_error of _run_stage_with_retry
    calls,                 \* oracle invocations of the latest stage run, in order
    composer_calls,        \* oracle invocations for the composer so far
    failure,               \* str(exc) of the latest invocation (<<>> if it returned)
    started,               \* the stage runs begun so far, in order
    gate,                  \* the latest evaluation of `len(...) < 3`
    stage_outputs,         \* stage_outputs of run_summa_v2
    problem_memo,          \* problem_memo of run_summa_v2
    queries,               \* queries of retrieve_grounded_papers
    merged,                \* merged of retrieve_grounded_papers (in insertion order)
    errors,                \* errors of retrieve_grounded_papers
    search_requests,       \* search requests issued so far
    retrieval_result,      \* retrieval_result of run_summa_v2
    normalized_hypotheses, \* normalized_hypotheses of run_summa_v2
    normalized_from,       \* the stage whose output normalized_hypotheses come from
    ranked_ids,            \* ranked_ids of run_summa_v2
    summa_rendering,       \* summa_rendering of run_summa_v2
    validations,           \* results of the validate_v2_payload calls, in order
    outcome,               \* "running", "final", "partial" or "raised"
    raised,                \* the exception type that escaped ("" if none)
    error,                 \* the `error` object of the partial-failure payload
    fn                     \* a function applied on its own: its inputs and its result

\* The state of a run of run_summa_v2.
pipeline == <<question, top, pc, attempt, retry_error, calls, composer_calls, failure,
              started, gate,
              stage_outputs, problem_memo, queries, merged, errors, search_requests,
              retrieval_result, normalized_hypotheses, normalized_from, ranked_ids,
              summa_rendering, validations, outcome, raised, error>>

vars == <<pipeline, fn>>

----------------------------------------------------------------------------
(* Bounds of the model.                                                    *)

MaxMsgLen == 1
MaxTop == 4
MaxItems == 3
MaxCites == 2
MaxCatalog == 2
MaxTriplet == 3
MaxRank == 5
MaxComparisons == 2
MaxSegments == 4
MaxOutputLines == 3

----------------------------------------------------------------------------
(* Texts.                                                                  *)

SP == " "

RECURSIVE LStrip(_)
LStrip(s) == IF s # <<>> /\ Head(s) = SP THEN LStrip(Tail(s)) ELSE s

RECURSIVE RStrip(_)
RStrip(s) ==
    IF s # <<>> /\ s[Len(s)] = SP THEN RStrip(SubSeq(s, 1, Len(s) - 1)) ELSE s

Strip(s) == RStrip(LStrip(s))

SeqsUpTo(S, n) == UNION {[1..k -> S] : k \in 0..n}

Questions == {<<>>, <<SP>>, <<SP, "q", SP>>}
Tops == 0..MaxTop
ErrorMessages == SeqsUpTo({SP, "e"}, MaxMsgLen)

default_domain == <<"general science">>
default_objective == <<"objective">>

NoOutputs == [k \in {} |-> ""]
NoFn == [op |-> "none"]
NoGate == [stage |-> "", count |-> 0]
NoRetry == [set |-> FALSE, msg |-> <<>>]
NoError == [stage |-> "", message |-> <<>>, retry_attempted |-> FALSE]
NoMemo == [kind |-> "none", text |-> <<>>]
NoRetrieval == [status |-> "", queries |-> <<>>, papers |-> <<>>, errors |-> <<>>]

----------------------------------------------------------------------------
(* The reasoner oracle and the JSON extractor.                             *)

\* What one oracle call can do: fail with a message, or return a text that
\* holds no JSON, a JSON value that is no object, or a JSON object `body`.
OracleRaw(Bodies, nobody) ==
    {[kind |-> "error", msg |-> m, body |-> nobody] : m \in ErrorMessages}
    \cup {[kind |-> k, msg |-> <<>>, body |-> nobody] : k \in {"text", "nonobject"}}
    \cup {[kind |-> "object", msg |-> <<>>, body |-> b] : b \in Bodies}

ParseJsonObject(raw) ==
    CASE raw.kind = "text" ->
           [ok |-> FALSE, msg |-> <<"No JSON object found in stage output: ">>,
            type |-> "ValueError", body |-> raw.body]
      [] raw.kind = "nonobject" ->
           [ok |-> FALSE, msg |-> <<"Stage output must be a JSON object.">>,
            type |-> "ValueError", body |-> raw.body]
      [] OTHER -> [ok |-> TRUE, msg |-> <<>>, type |-> "", body |-> raw.body]

RunJsonStage(raw) ==
    IF raw.kind = "error"
    THEN [ok |-> FALSE, msg |-> raw.msg, type |-> "Exception", body |-> raw.body]
    ELSE ParseJsonObject(raw)

----------------------------------------------------------------------------
(* The partial-failure payload.                                            *)

cleaned_question == Strip(question)

\* validate_partial_failure_payload on the payload build_partial_failure_payload
\* assembles: the lists, stage_outputs and summa_rendering always have the
\* required types, so the checks that can fail are the four non-empty strings.
ValidPartialFailure(q, d, err) ==
    /\ Strip(q) # <<>>
    /\ Strip(d) # <<>>
    /\ err.stage # ""
    /\ Strip(err.message) # <<>>

\* The except clause of run_summa_v2.
Terminate(kind, exc, err) ==
    /\ outcome' = kind
    /\ raised' = exc
    /\ error' = err
    /\ pc' = "done"
    /\ attempt' = 0
    /\ retry_error' = NoRetry

CatchStageFailure(stage, msg) ==
    LET err == [stage |-> stage, message |-> msg, retry_attempted |-> TRUE] IN
    IF ValidPartialFailure(cleaned_question, default_domain, err)
    THEN Terminate("partial", "", err)
    ELSE Terminate("raised", "ContractValidationError", NoError)

\* An exception that is no _StageFailure leaves run_summa_v2.
Escape(exc) == Terminate("raised", exc, NoError)

----------------------------------------------------------------------------
(* Init and the entry checks.                                              *)

Init ==
    /\ question \in Questions
    /\ top \in Tops
    /\ pc = "start"
    /\ attempt = 0
    /\ retry_error = NoRetry
    /\ calls = <<>>
    /\ composer_calls = 0
    /\ failure = <<>>
    /\ started = <<>>
    /\ gate = NoGate
    /\ stage_outputs = NoOutputs
    /\ problem_memo = NoMemo
    /\ queries = <<>>
    /\ merged = <<>>
    /\ errors = <<>>
    /\ search_requests = 0
    /\ retrieval_result = NoRetrieval
    /\ normalized_hypotheses = <<>>
    /\ normalized_from = "none"
    /\ ranked_ids = <<>>
    /\ summa_rendering = <<>>
    /\ validations = <<>>
    /\ outcome = "running"
    /\ raised = ""
    /\ error = NoError
    /\ fn = NoFn

\* The state in which a function of the program is applied on its own, outside
\* a run of run_summa_v2.
InitFn ==
    /\ question = <<SP, "q", SP>>
    /\ top = 1
    /\ pc = "fn"
    /\ attempt = 0
    /\ retry_error = NoRetry
    /\ calls = <<>>
    /\ composer_calls = 0
    /\ failure = <<>>
    /\ started = <<>>
    /\ gate = NoGate
    /\ stage_outputs = NoOutputs
    /\ problem_memo = NoMemo
    /\ queries = <<>>
    /\ merged = <<>>
    /\ errors = <<>>
    /\ search_requests = 0
    /\ retrieval_result = NoRetrieval
    /\ normalized_hypotheses = <<>>
    /\ normalized_from = "none"
    /\ ranked_ids = <<>>
    /\ summa_rendering = <<>>
    /\ validations = <<>>
    /\ outcome = "running"
    /\ raised = ""
    /\ error = NoError
    /\ fn = NoFn

\* A faulty variant of ValidArguments that forgets `top`.
QuestionOnly(q, t) == Strip(q) # <<>>

ValidArguments(q, t) == Strip(q) # <<>> /\ t \in {1, 3}

Start ==
    /\ pc = "start"
    /\ IF ValidArguments(question, top)
       THEN /\ pc' = "problem_framer"
            /\ started' = <<"problem_framer">>
            /\ UNCHANGED <<attempt, retry_error, outcome, raised, error>>
       ELSE /\ Escape("ValueError")
            /\ UNCHANGED started
    /\ UNCHANGED <<fn, question, top, calls, composer_calls, failure, gate, stage_outputs,
                   problem_memo,
                   queries, merged, errors, search_requests, retrieval_result,
                   normalized_hypotheses, normalized_from, ranked_ids,
                   summa_rendering, validations>>

----------------------------------------------------------------------------
(* The stage runner.                                                       *)

\* A faulty variant of Put that stores nothing.
PutNothing(f, k, v) == f

Put(f, k, v) == [x \in DOMAIN f \cup {k} |-> IF x = k THEN v ELSE f[x]]

\* A faulty variant of RetryAllowed that retries the second failure too.
RetryTwice(a) == a <= 1

\* `if attempt == 0` of _run_stage_with_retry: the first failure is retried.
RetryAllowed(a) == a = 0

\* The stage names under which run_summa_v2 invokes the composer.
ComposerStages == {"summa_composer", "summa_composer_retry"}

\* A template and a value are sequences of characters; a placeholder is
\* the three characters "{", name, "}"; inputs is the list of the (key,
\* value) pairs of the mapping, in its order.
Placeholder(key) == <<"{", key, "}">>

\* str.replace(Placeholder(key), value): the occurrences are taken from
\* the left and do not overlap; what was put in is not looked at again.
Replace(text, key, value) ==
    LET RECURSIVE Go(_)
        Go(i) ==
            IF i > Len(text) THEN <<>>
            ELSE IF i + 2 <= Len(text) /\ SubSeq(text, i, i + 2) = Placeholder(key)
                 THEN value \o Go(i + 3)
                 ELSE <<text[i]>> \o Go(i + 1)
    IN Go(1)

\* _render_template of crew_v2_stages.py: one str.replace after the other.
RenderPlaceholders(template, inputs) ==
    LET RECURSIVE Go(_, _)
        Go(rendered, k) ==
            IF k > Len(inputs) THEN rendered
            ELSE Go(Replace(rendered, inputs[k].key, inputs[k].value), k + 1)
    IN Go(template, 1)

\* template.format(**inputs) of _run_agent_task in crew_v2.py: a doubled
\* brace is one literal brace; "{", name, "}" is the value of a declared
\* name; every other brace raises KeyError, IndexError or ValueError.
Format(template, inputs) ==
    LET Declared(name) == \E k \in 1..Len(inputs) : inputs[k].key = name
        ValueOf(name) == inputs[CHOOSE k \in 1..Len(inputs) : inputs[k].key = name].value
        Is(i, c) == i <= Len(template) /\ template[i] = c
        RECURSIVE Go(_, _)
        Go(i, acc) ==
            IF i > Len(template) THEN [ok |-> TRUE, text |-> acc]
            ELSE IF Is(i, "{") /\ Is(i + 1, "{") THEN Go(i + 2, Append(acc, "{"))
            ELSE IF Is(i, "}") /\ Is(i + 1, "}") THEN Go(i + 2, Append(acc, "}"))
            ELSE IF Is(i, "{") /\ Is(i + 2, "}") /\ Declared(template[i + 1])
                 THEN Go(i + 3, acc \o ValueOf(template[i + 1]))
            ELSE IF Is(i, "{") \/ Is(i, "}") THEN [ok |-> FALSE, text |-> <<>>]
            ELSE Go(i + 1, Append(acc, template[i]))
    IN Go(1, <<>>)

\* The description template of a stage rendered with its inputs.
RenderTemplate(stage, objective) == <<"description of ", stage, ": ">> \o objective

\* The text _run_agent_task appends to the description `if retry_error`.
RetryPreamble(msg) ==
    <<"\n\nRetry context:\nPrevious attempt failed with: ">> \o msg
    \o <<"\nYou must return strict JSON only, parseable by json.loads.">>

\* `description` of _run_agent_task: None and the empty string add nothing.
Description(stage, objective, given) ==
    RenderTemplate(stage, objective)
    \o (IF given.set /\ given.msg # <<>> THEN RetryPreamble(given.msg) ELSE <<>>)

\* _run_stage_with_retry on its own, with run_once a call of
\* _run_json_stage: raws are the outcomes of the oracle's first and second
\* call (the second is not made when the first returns an object). It
\* returns the descriptions handed to the oracle, the messages of the
\* failed attempts and, when both failed, the _StageFailure it raises.
RunStageWithRetry(stage, objective, raws) ==
    LET first == RunJsonStage(raws[1])
        second == RunJsonStage(raws[2])
        d1 == Description(stage, objective, NoRetry)
        d2 == Description(stage, objective, [set |-> TRUE, msg |-> first.msg])
    IN IF first.ok
       THEN [ok |-> TRUE, descriptions |-> <<d1>>, messages |-> <<>>,
             raised |-> NoError]
       ELSE IF second.ok
            THEN [ok |-> TRUE, descriptions |-> <<d1, d2>>, messages |-> <<first.msg>>,
                  raised |-> NoError]
            ELSE [ok |-> FALSE, descriptions |-> <<d1, d2>>,
                  messages |-> <<first.msg, second.msg>>,
                  raised |-> [stage |-> stage, message |-> second.msg,
                              retry_attempted |-> TRUE]]

\* The invocation is entered in `calls` with the objective it was given
\* (<<>> for a stage whose inputs hold none) and whether it returned a JSON
\* object; the first invocation of a stage run starts the list afresh.
Invoked(stage, objective, r) ==
    /\ calls' = (IF attempt = 0 THEN <<>> ELSE calls)
                \o <<[stage |-> stage, objective |-> objective, ok |-> r.ok]>>
    /\ composer_calls' = IF stage \in ComposerStages THEN composer_calls + 1
                         ELSE composer_calls
    /\ failure' = IF r.ok THEN <<>> ELSE r.msg

\* The except branch of _run_stage_with_retry, and the except clause of
\* run_summa_v2 when the second attempt failed too.
AttemptFailed(stage, msg) ==
    /\ IF RetryAllowed(attempt)
       THEN /\ attempt' = attempt + 1
            /\ retry_error' = [set |-> TRUE, msg |-> msg]
            /\ UNCHANGED <<pc, outcome, raised, error>>
       ELSE CatchStageFailure(stage, msg)
    /\ UNCHANGED <<fn, question, top, started, gate, stage_outputs, problem_memo, queries,
                   merged, errors, search_requests, retrieval_result,
                   normalized_hypotheses, normalized_from, ranked_ids,
                   summa_rendering, validations>>

\* The controller goes on to the stage run `stage`.
BeginStage(stage) ==
    /\ pc' = stage
    /\ attempt' = 0
    /\ retry_error' = NoRetry
    /\ started' = Append(started, stage)
    /\ UNCHANGED <<outcome, raised, error>>

----------------------------------------------------------------------------
(* problem_framer and the query plan.                                      *)

\* The refined_query of a problem memo: a string, or a JSON value that is
\* no string ("falsy": null, absent, 0, [], {}; "truthy": 42, ["x"], ...).
PFBodies ==
    {[kind |-> "str", text |-> <<"r", SP>>],
     [kind |-> "str", text |-> <<"q">>],
     [kind |-> "falsy", text |-> <<>>],
     [kind |-> "truthy", text |-> <<>>]}

\* `(refined_query or "").strip()` raises AttributeError on a truthy value
\* that is no string.
DualQueriesRaise(refined) == refined.kind = "truthy"

Dedupe(cands) ==
    LET RECURSIVE Go(_, _)
        Go(rest, acc) ==
            IF rest = <<>> THEN acc
            ELSE IF Head(rest) # <<>> /\ \A i \in 1..Len(acc) : acc[i] # Head(rest)
                 THEN Go(Tail(rest), Append(acc, Head(rest)))
                 ELSE Go(Tail(rest), acc)
    IN Go(cands, <<>>)

BuildDualQueries(q, refined) ==
    Dedupe(<<Strip(q), IF refined.kind = "str" THEN Strip(refined.text) ELSE <<>>>>)

ProblemFramer ==
    /\ pc = "problem_framer"
    /\ \E raw \in OracleRaw(PFBodies, NoMemo) :
         LET r == RunJsonStage(raw) IN
         /\ Invoked("problem_framer", default_objective, r)
         /\ IF ~r.ok
            THEN AttemptFailed("problem_framer", r.msg)
            ELSE /\ stage_outputs' = Put(stage_outputs, "problem_framer", "problem_framer")
                 /\ problem_memo' = r.body
                 /\ IF DualQueriesRaise(r.body)
                    THEN /\ Escape("AttributeError")
                         /\ UNCHANGED <<started, queries>>
                    ELSE /\ BeginStage("paper_retrieval")
                         /\ queries' = BuildDualQueries(cleaned_question, r.body)
                 /\ UNCHANGED <<fn, question, top, gate, merged, errors, search_requests,
                                retrieval_result, normalized_hypotheses,
                                normalized_from, ranked_ids, summa_rendering,
                                validations>>

----------------------------------------------------------------------------
(* Paper retrieval (semantic_scholar.py).                                  *)

\* A paper record; "" is a missing paper_id or title, <<>> a missing DOI and
\* 0 a year that is no integer.
NoPaper == [paper_id |-> "", doi |-> <<>>, title |-> "", authors |-> <<>>, year |-> 0]
P1 == [paper_id |-> "p1", doi |-> <<"10.1/X">>, title |-> "t1",
       authors |-> <<<<"a">>>>, year |-> 2020]

\* What the search service can answer to one request: a failure of the
\* transport (here a timeout; any exception is handled alike), a JSON object
\* whose `data` is no list, or a list of records (here one well-formed
\* record and one without title).
SearchResponses ==
    {[kind |-> k, records |-> <<>>] : k \in {"timeout", "no_data_list"}}
    \cup {[kind |-> "records", records |-> <<P1, NoPaper>>]}

\* _parse_paper: a record without title, year or authors is skipped.
ParsePapers(records) ==
    SelectSeq(records, LAMBDA p : p.title # "" /\ p.year # 0 /\ p.authors # <<>>)

\* search_semantic_scholar: raises, or returns the parsed papers.
SearchSemanticScholar(resp) ==
    CASE resp.kind = "timeout" ->
           [raises |-> TRUE, msg |-> <<"timed out">>, papers |-> <<>>]
      [] resp.kind = "no_data_list" ->
           [raises |-> FALSE, msg |-> <<>>, papers |-> <<>>]
      [] OTHER ->
           [raises |-> FALSE, msg |-> <<>>, papers |-> ParsePapers(resp.records)]

Lower(tok) ==
    CASE tok = "DOI:" -> "doi:"
      [] tok = "10.1/X" -> "10.1/x"
      [] tok = "A" -> "a"
      [] tok = "B" -> "b"
      [] OTHER -> tok

NormalizeDoi(d) ==
    LET low == [i \in 1..Len(Strip(d)) |-> Lower(Strip(d)[i])] IN
    IF low # <<>> /\ Head(low) = "doi:" THEN Strip(Tail(low)) ELSE low

DedupeKey(p) ==
    IF p.paper_id # "" THEN <<"paper_id", <<p.paper_id>>, 0>>
    ELSE IF p.doi # <<>> THEN <<"doi", NormalizeDoi(p.doi), 0>>
    ELSE <<"title_year", <<Lower(p.title)>>, p.year>>

\* A faulty variant of MergePapers that lets a later paper replace the one
\* merged under its key.
MergePapersKeepLast(acc, papers) ==
    LET RECURSIVE Go(_, _)
        Go(m, rest) ==
            IF rest = <<>> THEN m
            ELSE Go([i \in 1..Len(m) |->
                        IF DedupeKey(m[i]) = DedupeKey(Head(rest)) THEN Head(rest) ELSE m[i]]
                    \o (IF \E i \in 1..Len(m) : DedupeKey(m[i]) = DedupeKey(Head(rest))
                        THEN <<>> ELSE <<Head(rest)>>),
                    Tail(rest))
    IN Go(acc, papers)

MergePapers(acc, papers) ==
    LET RECURSIVE Go(_, _)
        Go(m, rest) ==
            IF rest = <<>> THEN m
            ELSE IF \E i \in 1..Len(m) : DedupeKey(m[i]) = DedupeKey(Head(rest))
                 THEN Go(m, Tail(rest))
                 ELSE Go(Append(m, Head(rest)), Tail(rest))
    IN Go(acc, papers)

\* The result retrieve_grounded_papers builds after its loop.
RetrievalResult(qs, papers, errs) ==
    IF papers = <<>>
    THEN [status |-> "no_grounded_citations_found", queries |-> qs,
          papers |-> <<>>, errors |-> errs]
    ELSE [status |-> "ok", queries |-> qs, papers |-> papers, errors |-> errs]

\* The message of the result.
RetrievalMessage(papers, errs) ==
    IF papers # <<>> THEN <<"retrieved ", ToString(Len(papers)), " grounded papers">>
    ELSE IF errs # <<>>
         THEN <<"no grounded citations found (API failure or empty results)">>
         ELSE <<"no grounded citations found">>

\* retrieve_grounded_papers on its own: responses[i] is the answer of the
\* search service to the i-th query.
RetrieveGroundedPapers(q, refined, responses) ==
    LET qs == BuildDualQueries(q, refined)
        RECURSIVE Loop(_, _, _)
        Loop(i, m, errs) ==
            IF i > Len(qs) THEN [merged |-> m, errors |-> errs]
            ELSE LET r == SearchSemanticScholar(responses[i]) IN
                 IF r.raises THEN Loop(i + 1, m, Append(errs, r.msg))
                 ELSE Loop(i + 1, MergePapers(m, r.papers), errs)
        done == Loop(1, <<>>, <<>>)
    IN IF qs = <<>>
       THEN [status |-> "no_grounded_citations_found",
             message |-> <<"no grounded citations found">>,
             queries |-> <<>>, papers |-> <<>>,
             errors |-> <<<<"question/refined_query are empty">>>>]
       ELSE [status |-> RetrievalResult(qs, done.merged, done.errors).status,
             message |-> RetrievalMessage(done.merged, done.errors),
             queries |-> qs, papers |-> done.merged, errors |-> done.errors]

\* One iteration of the loop of retrieve_grounded_papers; after the last
\* query the result is stored and the controller goes on.
SearchRequest ==
    /\ pc = "paper_retrieval"
    /\ search_requests < Len(queries)
    /\ \E resp \in SearchResponses :
         LET r == SearchSemanticScholar(resp)
             errs == IF r.raises THEN Append(errors, r.msg) ELSE errors
             m == IF r.raises THEN merged ELSE MergePapers(merged, r.papers)
         IN
         /\ search_requests' = search_requests + 1
         /\ errors' = errs
         /\ merged' = m
         /\ IF search_requests + 1 = Len(queries)
            THEN /\ retrieval_result' = RetrievalResult(queries, m, errs)
                 /\ stage_outputs' = Put(stage_outputs, "retrieval", "paper_retrieval")
                 /\ BeginStage("literature_scout")
            ELSE UNCHANGED <<retrieval_result, stage_outputs, pc, attempt,
                             retry_error, started, outcome, raised, error>>
    /\ UNCHANGED <<fn, question, top, calls, composer_calls, failure, gate, problem_memo,
                   queries,
                   normalized_hypotheses, normalized_from, ranked_ids,
                   summa_rendering, validations>>

----------------------------------------------------------------------------
(* literature_scout.                                                       *)

OpaqueBodies == {[kind |-> "memo", text |-> <<>>]}

LiteratureScout ==
    /\ pc = "literature_scout"
    /\ \E raw \in OracleRaw(OpaqueBodies, NoMemo) :
         LET r == RunJsonStage(raw) IN
         /\ Invoked("literature_scout", <<>>, r)
         /\ IF ~r.ok
            THEN AttemptFailed("literature_scout", r.msg)
            ELSE /\ stage_outputs' =
                        Put(stage_outputs, "literature_scout", "literature_scout")
                 /\ BeginStage("hypothesis_generator")
                 /\ UNCHANGED <<fn, question, top, gate, problem_memo, queries, merged,
                                errors, search_requests, retrieval_result,
                                normalized_hypotheses, normalized_from, ranked_ids,
                                summa_rendering, validations>>

----------------------------------------------------------------------------
(* Normalizers of crew_v2.py.                                              *)

MaxHypotheses == 5

\* A hypothesis id is <<prefix, n>>: h{n} is <<"h", n>>; NoId is a missing,
\* blank or non-string id.
NoId == <<"", 0>>
HId(n) == <<"h", n>>

\* A citation as the oracle gives it; "" is a missing or blank title or
\* paper_id, NoDoi a missing doi or one that is no string (<<>> is the empty
\* string), 0 a year that is no integer; an author is a text.
NoDoi == <<"none">>
CiteP1 == [paper_id |-> "p1", doi |-> NoDoi, title |-> "t1",
           authors |-> <<<<"a">>>>, year |-> 2020]
CiteP9 == [paper_id |-> "p9", doi |-> NoDoi, title |-> "t9",
           authors |-> <<<<"b">>>>, year |-> 2021]
CiteBlankAuthor == [paper_id |-> "", doi |-> <<SP, "DOI:", "10.1/X">>, title |-> "t1",
                    authors |-> <<<<SP>>>>, year |-> 2020]

ValidIds(papers) == {papers[i].paper_id : i \in {j \in 1..Len(papers) : papers[j].paper_id # ""}}
ValidDois(papers) ==
    {NormalizeDoi(papers[i].doi) : i \in {j \in 1..Len(papers) : papers[j].doi # <<>>}}

\* A faulty variant of HasValidPaperId that accepts every paper_id.
AnyPaperId(c, papers) == c.paper_id # ""

HasValidPaperId(c, papers) == c.paper_id # "" /\ c.paper_id \in ValidIds(papers)
HasValidDoi(c, papers) == c.doi # NoDoi /\ NormalizeDoi(c.doi) \in ValidDois(papers)

CitationKey(c, papers) ==
    IF HasValidPaperId(c, papers) THEN <<"", <<c.paper_id>>>>
    ELSE <<"doi:", NormalizeDoi(c.doi)>>

\* _sanitize_citations.
SanitizeCitations(citations, papers) ==
    LET Keep(c) == /\ c.title # ""
                   /\ c.authors # <<>>
                   /\ c.year # 0
                   /\ (HasValidPaperId(c, papers) \/ HasValidDoi(c, papers))
        Clean(c) == [paper_id |-> IF HasValidPaperId(c, papers) THEN c.paper_id ELSE "",
                     doi |-> IF HasValidDoi(c, papers) THEN Strip(c.doi) ELSE NoDoi,
                     title |-> c.title,
                     authors |-> SelectSeq([i \in 1..Len(c.authors) |-> Strip(c.authors[i])],
                                           LAMBDA a : a # <<>>),
                     year |-> c.year]
        RECURSIVE Go(_, _, _)
        Go(rest, seen, acc) ==
            IF rest = <<>> THEN acc
            ELSE LET c == Head(rest) IN
                 IF ~Keep(c) \/ CitationKey(c, papers) \in seen
                 THEN Go(Tail(rest), seen, acc)
                 ELSE Go(Tail(rest), seen \cup {CitationKey(c, papers)},
                         Append(acc, Clean(c)))
    IN Go(citations, {}, <<>>)

\* sorted(...) of a list of numbers.
SortAsc(nums) ==
    LET RECURSIVE Ins(_, _)
        Ins(sorted, x) ==
            IF sorted = <<>> THEN <<x>>
            ELSE IF x < Head(sorted) THEN <<x>> \o sorted
                 ELSE <<Head(sorted)>> \o Ins(Tail(sorted), x)
        RECURSIVE Go(_, _)
        Go(rest, acc) == IF rest = <<>> THEN acc ELSE Go(Tail(rest), Ins(acc, Head(rest)))
    IN Go(nums, <<>>)

Take(s, n) == SubSeq(s, 1, IF Len(s) < n THEN Len(s) ELSE n)

\* _ensure_objections and _ensure_replies, on the numbers of the usable
\* items (an item is usable when its number is an integer and its text is
\* not blank): sort, append the missing ones of 1, 2, 3, sort, keep three.
\* A faulty variant of EnsureObjections that does not sort after appending.
EnsureObjectionsUnsorted(nums) ==
    LET missing == SelectSeq(<<1, 2, 3>>, LAMBDA n : \A i \in 1..Len(nums) : nums[i] # n)
    IN Take(SortAsc(nums) \o missing, 3)

EnsureObjections(nums) ==
    LET missing == SelectSeq(<<1, 2, 3>>, LAMBDA n : \A i \in 1..Len(nums) : nums[i] # n)
    IN Take(SortAsc(SortAsc(nums) \o missing), 3)

EnsureReplies(nums) ==
    LET missing == SelectSeq(<<1, 2, 3>>, LAMBDA n : \A i \in 1..Len(nums) : nums[i] # n)
    IN Take(SortAsc(SortAsc(nums) \o missing), 3)

NoScores == [novelty |-> 0, plausibility |-> 0, testability |-> 0, overall |-> 0]
NoWins == [novelty |-> 0, plausibility |-> 0, testability |-> 0]

\* A normalized hypothesis. objections = <<>> is a hypothesis without the
\* key `objections` (likewise replies); scored = FALSE one without
\* `pairwise_record` and `scores`.
Hypothesis(id, cites, objs, reps) ==
    [id |-> id, citations |-> cites, objections |-> objs, replies |-> reps,
     scored |-> FALSE, comparisons |-> <<>>, wins |-> NoWins, scores |-> NoScores]

\* An item of a `hypotheses` list of the oracle: no object (dict = FALSE),
\* or an object with these keys.
Item(id, cites, objs, reps) ==
    [dict |-> TRUE, id |-> id, citations |-> cites, objections |-> objs, replies |-> reps]
NonDict == [dict |-> FALSE, id |-> NoId, citations |-> <<>>, objections |-> <<>>,
            replies |-> <<>>]

\* _as_id.
AsId(value, fallback_counter) == IF value # NoId THEN value ELSE HId(fallback_counter)

\* _normalize_generated_hypotheses of crew_v2.py, on a `hypotheses` list.
NormalizeGeneratedHypotheses(items, papers) ==
    LET RECURSIVE Free(_, _)
        \* the while loop: advance the counter until h{counter} is unused
        Free(counter, seen) ==
            IF HId(counter) \in seen THEN Free(counter + 1, seen) ELSE counter
        RECURSIVE Go(_, _, _, _)
        Go(rest, seen, counter, acc) ==
            IF rest = <<>> THEN acc
            ELSE LET item == Head(rest) IN
                 IF ~item.dict THEN Go(Tail(rest), seen, counter, acc)
                 ELSE LET first == AsId(item.id, counter)
                          c2 == IF first \in seen THEN Free(counter + 1, seen) ELSE counter
                          hid == IF first \in seen THEN HId(c2) ELSE first
                      IN Go(Tail(rest), seen \cup {hid}, c2 + 1,
                            Append(acc, Hypothesis(hid,
                                                   SanitizeCitations(item.citations, papers),
                                                   <<>>, <<>>)))
    IN Take(Go(items, {}, 1, <<>>), MaxHypotheses)

\* A faulty variant of NormalizeCriticHypotheses that numbers the items
\* without id instead of skipping them.
NormalizeCriticNumbering(listed, items, fallback, papers) ==
    LET RECURSIVE Go(_, _, _)
        Go(rest, seen, acc) ==
            IF rest = <<>> THEN acc
            ELSE LET item == Head(rest) IN
                 IF ~item.dict \/ item.id \in seen
                 THEN Go(Tail(rest), seen, acc)
                 ELSE Go(Tail(rest), seen \cup {item.id},
                         Append(acc, Hypothesis(IF item.id = NoId
                                                THEN <<"c", Len(acc) + 1>> ELSE item.id,
                                                SanitizeCitations(item.citations, papers),
                                                EnsureObjections(item.objections),
                                                EnsureReplies(item.replies))))
        hyps == IF ~listed \/ items = <<>> THEN fallback ELSE Go(items, {}, <<>>)
        Fill(h) == [h EXCEPT !.objections = IF @ = <<>> THEN EnsureObjections(<<>>) ELSE @,
                             !.replies = IF @ = <<>> THEN EnsureReplies(<<>>) ELSE @]
    IN [usable |-> hyps # <<>>,
        hypotheses |-> Take([i \in 1..Len(hyps) |-> Fill(hyps[i])], MaxHypotheses)]

\* _normalize_critic_hypotheses of crew_v2.py. `listed` is whether the
\* critic's `hypotheses` is a list. The result has usable = FALSE when the
\* function raises ValueError (no usable hypothesis).
NormalizeCriticHypotheses(listed, items, fallback, papers) ==
    LET RECURSIVE Go(_, _, _)
        Go(rest, seen, acc) ==
            IF rest = <<>> THEN acc
            ELSE LET item == Head(rest) IN
                 IF ~item.dict \/ item.id = NoId \/ item.id \in seen
                 THEN Go(Tail(rest), seen, acc)
                 ELSE Go(Tail(rest), seen \cup {item.id},
                         Append(acc, Hypothesis(item.id,
                                                SanitizeCitations(item.citations, papers),
                                                EnsureObjections(item.objections),
                                                EnsureReplies(item.replies))))
        hyps == IF ~listed \/ items = <<>> THEN fallback ELSE Go(items, {}, <<>>)
        Fill(h) == [h EXCEPT !.objections = IF @ = <<>> THEN EnsureObjections(<<>>) ELSE @,
                             !.replies = IF @ = <<>> THEN EnsureReplies(<<>>) ELSE @]
    IN [usable |-> hyps # <<>>,
        hypotheses |-> Take([i \in 1..Len(hyps) |-> Fill(hyps[i])], MaxHypotheses)]

----------------------------------------------------------------------------
(* The generator normalizer of crew_v2_postprocess.py. Its ids are those   *)
(* of crew_v2.py; it also falls back to catalog citations and fills the    *)
(* triplets.                                                               *)

\* A faulty variant of NormalizeTextList that returns an empty list.
NormalizeTextListNoFallback(value, fallback) ==
    SelectSeq([i \in 1..Len(value.items) |-> Strip(value.items[i])], LAMBDA t : t # <<>>)

\* _normalize_text_list: `value` is a list of texts (listed) or no list.
NormalizeTextList(value, fallback) ==
    LET cleaned == SelectSeq([i \in 1..Len(value.items) |-> Strip(value.items[i])],
                             LAMBDA t : t # <<>>)
    IN IF value.listed /\ cleaned # <<>> THEN cleaned ELSE <<fallback>>

\* _fallback_grounded_citations.
FallbackGroundedCitations(papers, limit) ==
    LET Usable(p) == /\ p.title # ""
                     /\ p.year # 0
                     /\ p.year >= 1800 /\ p.year <= 2100
                     /\ p.authors # <<>>
                     /\ (p.paper_id # "" \/ p.doi # <<>>)
        Key(p) == IF p.paper_id # "" THEN <<"", <<p.paper_id>>>>
                  ELSE <<"doi:", NormalizeDoi(p.doi)>>
        Citation(p) == [paper_id |-> p.paper_id,
                        doi |-> IF p.doi # <<>> THEN Strip(p.doi) ELSE NoDoi,
                        title |-> p.title,
                        authors |-> SelectSeq([i \in 1..Len(p.authors) |-> Strip(p.authors[i])],
                                              LAMBDA a : a # <<>>),
                        year |-> p.year]
        bound == IF limit > 1 THEN limit ELSE 1
        RECURSIVE Go(_, _, _)
        Go(rest, seen, acc) ==
            IF rest = <<>> \/ Len(acc) >= bound THEN acc
            ELSE LET paper == Head(rest) IN
                 IF ~Usable(paper) \/ Key(paper) \in seen
                 THEN Go(Tail(rest), seen, acc)
                 ELSE Go(Tail(rest), seen \cup {Key(paper)}, Append(acc, Citation(paper)))
    IN Go(papers, {}, <<>>)

\* _normalize_generated_hypotheses of crew_v2_postprocess.py, on a
\* `hypotheses` list whose objects also hold falsifiable_predictions and
\* minimal_experiments.
NormalizeGeneratedPostprocess(items, papers) ==
    LET ided == NormalizeGeneratedHypotheses(items, papers)
        dicts == SelectSeq(items, LAMBDA item : item.dict)
    IN [i \in 1..Len(ided) |->
          [id |-> ided[i].id,
           falsifiable_predictions |->
               NormalizeTextList(dicts[i].falsifiable_predictions,
                                 <<"Prediction not provided.">>),
           minimal_experiments |->
               NormalizeTextList(dicts[i].minimal_experiments,
                                 <<"Experiment plan not provided.">>),
           citations |-> IF ided[i].citations = <<>>
                         THEN FallbackGroundedCitations(papers, 3)
                         ELSE ided[i].citations,
           objections |-> EnsureObjections(dicts[i].objections),
           replies |-> EnsureReplies(dicts[i].replies)]]

----------------------------------------------------------------------------
(* The pairwise ranker of crew_v2.py.                                      *)

Dimensions == {"novelty", "plausibility", "testability"}

\* The order of Python strings on the ids of the model (h1 < ... < h9 < zz).
IdLess(a, b) ==
    IF a[1] = b[1] THEN a[2] < b[2] ELSE a[1] = "h"

\* _winner.
Winner(value) == IF Lower(value) \in {"a", "b", "tie"} THEN Lower(value) ELSE "tie"

Comparison(a, b, wn, wp, wt) ==
    [dict |-> TRUE, a |-> a, b |-> b, novelty |-> wn, plausibility |-> wp,
     testability |-> wt]

Ids(hyps) == [i \in 1..Len(hyps) |-> hyps[i].id]
Range(s) == {s[i] : i \in 1..Len(s)}

\* The loop over the ranker's comparisons: items that are no object, lack an
\* id, pair an id with itself or name an unknown id are dropped, and of the
\* comparisons of one unordered pair the first is kept.
NormalizeComparisons(comparisons, ids) ==
    LET RECURSIVE Go(_, _, _)
        Go(rest, seen, acc) ==
            IF rest = <<>> THEN acc
            ELSE LET c == Head(rest) IN
                 IF \/ ~c.dict
                    \/ c.a = NoId \/ c.b = NoId \/ c.a = c.b
                    \/ c.a \notin Range(ids) \/ c.b \notin Range(ids)
                    \/ {c.a, c.b} \in seen
                 THEN Go(Tail(rest), seen, acc)
                 ELSE Go(Tail(rest), seen \cup {{c.a, c.b}},
                         Append(acc, Comparison(c.a, c.b, Winner(c.novelty),
                                                Winner(c.plausibility),
                                                Winner(c.testability))))
    IN Go(comparisons, {}, <<>>)

\* The expected pairs in sorted order, each as <<smaller id, larger id>>.
SortedPairs(ids) ==
    LET pairs == {<<a, b>> \in Range(ids) \X Range(ids) : IdLess(a, b)}
        PairLess(p, q) == IF p[1] = q[1] THEN IdLess(p[2], q[2]) ELSE IdLess(p[1], q[1])
        RECURSIVE Go(_)
        Go(S) == IF S = {} THEN <<>>
                 ELSE LET m == CHOOSE p \in S : \A q \in S \ {p} : PairLess(p, q)
                      IN <<m>> \o Go(S \ {m})
    IN Go(pairs)

\* A faulty variant of WithSyntheticTies that leaves the missing pairs out.
NoSyntheticTies(normalized, ids) == normalized

\* The synthetic all-tie comparisons of the pairs the ranker left out.
WithSyntheticTies(normalized, ids) ==
    LET covered == {{normalized[i].a, normalized[i].b} : i \in 1..Len(normalized)}
        missing == SelectSeq(SortedPairs(ids), LAMBDA p : {p[1], p[2]} \notin covered)
    IN normalized \o [i \in 1..Len(missing) |->
                         Comparison(missing[i][1], missing[i][2], "tie", "tie", "tie")]

\* _accumulate_win over all comparisons: the wins of `id` in `dim`.
Wins(comparisons, id, dim) ==
    Cardinality({i \in 1..Len(comparisons) :
                    \/ comparisons[i][dim] = "a" /\ comparisons[i].a = id
                    \/ comparisons[i][dim] = "b" /\ comparisons[i].b = id})

\* round(a / b * 1000) for a >= 0, b > 0: a score in thousandths.
RoundMilli(a, b) == (2000 * a + b) \div (2 * b)

\* A faulty variant of Scores whose overall is the plain mean.
ScoresUnweighted(wins, divisor) ==
    [novelty |-> RoundMilli(divisor + 4 * wins.novelty, divisor),
     plausibility |-> RoundMilli(divisor + 4 * wins.plausibility, divisor),
     testability |-> RoundMilli(divisor + 4 * wins.testability, divisor),
     overall |-> RoundMilli(3 * divisor + 4 * (wins.novelty + wins.plausibility
                                                + wins.testability), 3 * divisor)]

\* scores_by_id of crew_v2.py: 1 + 4 * wins / divisor per dimension, and the
\* weighted overall of the unrounded scores, each rounded to 3 decimals.
Scores(wins, divisor) ==
    [novelty |-> RoundMilli(divisor + 4 * wins.novelty, divisor),
     plausibility |-> RoundMilli(divisor + 4 * wins.plausibility, divisor),
     testability |-> RoundMilli(divisor + 4 * wins.testability, divisor),
     overall |-> RoundMilli(35 * (divisor + 4 * wins.novelty)
                            + 30 * (divisor + 4 * wins.plausibility)
                            + 35 * (divisor + 4 * wins.testability), 100 * divisor)]

\* The sort key (overall, novelty, testability, plausibility), compared
\* as Python compares tuples.
KeyLess(s, t) ==
    LET ks == <<s.overall, s.novelty, s.testability, s.plausibility>>
        kt == <<t.overall, t.novelty, t.testability, t.plausibility>>
    IN \E i \in 1..4 : ks[i] < kt[i] /\ \A j \in 1..(i - 1) : ks[j] = kt[j]

\* A faulty variant of SortRanked that puts a hypothesis before those of
\* equal key.
SortRankedTiesReversed(hyps) ==
    LET RECURSIVE Ins(_, _)
        Ins(sorted, h) ==
            IF sorted = <<>> THEN <<h>>
            ELSE IF ~KeyLess(h.scores, Head(sorted).scores) THEN <<h>> \o sorted
                 ELSE <<Head(sorted)>> \o Ins(Tail(sorted), h)
        RECURSIVE Go(_, _)
        Go(rest, acc) == IF rest = <<>> THEN acc ELSE Go(Tail(rest), Ins(acc, Head(rest)))
    IN Ids(Go(hyps, <<>>))

\* A faulty variant of SortRanked that lists the first id twice.
SortRankedRepeating(hyps) == Ids(hyps) \o <<hyps[1].id>>

\* sorted(ids, key=..., reverse=True): descending and stable.
SortRanked(hyps) ==
    LET RECURSIVE Ins(_, _)
        Ins(sorted, h) ==
            IF sorted = <<>> THEN <<h>>
            ELSE IF KeyLess(Head(sorted).scores, h.scores) THEN <<h>> \o sorted
                 ELSE <<Head(sorted)>> \o Ins(Tail(sorted), h)
        RECURSIVE Go(_, _)
        Go(rest, acc) == IF rest = <<>> THEN acc ELSE Go(Tail(rest), Ins(acc, Head(rest)))
    IN Ids(Go(hyps, <<>>))

\* _apply_pairwise_ranking of crew_v2.py; ok = FALSE when it raises
\* ValueError (the ranker's `comparisons` is no list).
ApplyPairwiseRanking(hyps, listed, comparisons) ==
    LET ids == Ids(hyps)
        all == WithSyntheticTies(NormalizeComparisons(comparisons, ids), ids)
        divisor == IF Len(ids) - 1 > 1 THEN Len(ids) - 1 ELSE 1
        WinsOf(id) == [d \in Dimensions |-> Wins(all, id, d)]
        updated == [i \in 1..Len(hyps) |->
                       [hyps[i] EXCEPT
                          !.scored = TRUE,
                          !.comparisons = SelectSeq(all, LAMBDA c : hyps[i].id \in {c.a, c.b}),
                          !.wins = WinsOf(hyps[i].id),
                          !.scores = Scores(WinsOf(hyps[i].id), divisor)]]
    IN IF ~listed
       THEN [ok |-> FALSE, ranked |-> <<>>, hypotheses |-> hyps]
       ELSE [ok |-> TRUE, ranked |-> SortRanked(updated), hypotheses |-> updated]

----------------------------------------------------------------------------
(* The pairwise ranker of crew_v2_postprocess.py. Its loop over the        *)
(* ranker's comparisons, its synthetic ties and its sort are those of      *)
(* crew_v2.py; its scores are computed from points.                        *)

\* _accumulate_points over all comparisons, doubled: 2 for a win of `id` in
\* `dim`, 1 for a tie, 0 for a loss.
\* A faulty variant of PointsTwice in which a tie gives its point to a.
PointsTwiceTieToFirst(comparisons, id, dim) ==
    2 * Cardinality({i \in 1..Len(comparisons) :
                        \/ comparisons[i][dim] # "b" /\ comparisons[i].a = id
                        \/ comparisons[i][dim] = "b" /\ comparisons[i].b = id})

\* A faulty variant of PointsTwice in which a tie gives no points.
PointsTwiceWithoutTies(comparisons, id, dim) ==
    2 * Cardinality({i \in 1..Len(comparisons) :
                        \/ comparisons[i][dim] = "a" /\ comparisons[i].a = id
                        \/ comparisons[i][dim] = "b" /\ comparisons[i].b = id})

PointsTwice(comparisons, id, dim) ==
    LET won == {i \in 1..Len(comparisons) :
                   \/ comparisons[i][dim] = "a" /\ comparisons[i].a = id
                   \/ comparisons[i][dim] = "b" /\ comparisons[i].b = id}
        tied == {i \in 1..Len(comparisons) :
                    /\ comparisons[i][dim] \notin {"a", "b"}
                    /\ id \in {comparisons[i].a, comparisons[i].b}}
    IN 2 * Cardinality(won) + Cardinality(tied)

\* A faulty variant of PointScores that does not divide by the divisor.
PointScoresUndivided(twice, divisor) ==
    [novelty |-> RoundMilli(1 + 2 * twice.novelty, 1),
     plausibility |-> RoundMilli(1 + 2 * twice.plausibility, 1),
     testability |-> RoundMilli(1 + 2 * twice.testability, 1),
     overall |-> RoundMilli(35 * (1 + 2 * twice.novelty)
                            + 30 * (1 + 2 * twice.plausibility)
                            + 35 * (1 + 2 * twice.testability), 100)]

\* scores_by_id of crew_v2_postprocess.py: 1 + 4 * points / divisor per
\* dimension, and the weighted overall of the unrounded scores, each rounded
\* to 3 decimals. `twice` holds the doubled points.
PointScores(twice, divisor) ==
    [novelty |-> RoundMilli(divisor + 2 * twice.novelty, divisor),
     plausibility |-> RoundMilli(divisor + 2 * twice.plausibility, divisor),
     testability |-> RoundMilli(divisor + 2 * twice.testability, divisor),
     overall |-> RoundMilli(35 * (divisor + 2 * twice.novelty)
                            + 30 * (divisor + 2 * twice.plausibility)
                            + 35 * (divisor + 2 * twice.testability), 100 * divisor)]

\* `points` of _apply_pairwise_ranking of crew_v2_postprocess.py after its
\* accumulation loop, doubled, in the order of the hypotheses.
RankingPoints(hyps, comparisons) ==
    LET ids == Ids(hyps)
        all == WithSyntheticTies(NormalizeComparisons(comparisons, ids), ids)
    IN [i \in 1..Len(hyps) |-> [d \in Dimensions |-> PointsTwice(all, hyps[i].id, d)]]

\* _apply_pairwise_ranking of crew_v2_postprocess.py.
ApplyPairwiseRankingByPoints(hyps, listed, comparisons) ==
    LET ids == Ids(hyps)
        all == WithSyntheticTies(NormalizeComparisons(comparisons, ids), ids)
        divisor == IF Len(ids) - 1 > 1 THEN Len(ids) - 1 ELSE 1
        WinsOf(id) == [d \in Dimensions |-> Wins(all, id, d)]
        PointsOf(id) == [d \in Dimensions |-> PointsTwice(all, id, d)]
        updated == [i \in 1..Len(hyps) |->
                       [hyps[i] EXCEPT
                          !.scored = TRUE,
                          !.comparisons = SelectSeq(all, LAMBDA c : hyps[i].id \in {c.a, c.b}),
                          !.wins = WinsOf(hyps[i].id),
                          !.scores = PointScores(PointsOf(hyps[i].id), divisor)]]
    IN IF ~listed
       THEN [ok |-> FALSE, ranked |-> <<>>, hypotheses |-> hyps]
       ELSE [ok |-> TRUE, ranked |-> SortRanked(updated), hypotheses |-> updated]

----------------------------------------------------------------------------

(* The Summa Renderer of crew_v2_postprocess.py. A rendering is a sequence *)
(* of lines; the line SP is blank.                                         *)

Rule == "---"

\* The lines _build_summa_rendering writes for objection and reply n.
ObjectionLine(n) ==
    CASE n = 0 -> "0. o" [] n = 1 -> "1. o" [] n = 2 -> "2. o" [] n = 3 -> "3. o"
      [] OTHER -> "4. o"
ReplyLine(n) ==
    CASE n = 0 -> "Reply to Objection 0. r" [] n = 1 -> "Reply to Objection 1. r"
      [] n = 2 -> "Reply to Objection 2. r" [] n = 3 -> "Reply to Objection 3. r"
      [] OTHER -> "Reply to Objection 4. r"

\* The required markers (lowercased) and number tokens a line contains.
Contains(line) ==
    CASE line = "Question: q" -> {"question:"}
      [] line = "Objections:" -> {"objections:"}
      [] line \in {"1. o", "Reply to Objection 1. r"} -> {"1."}
      [] line \in {"2. o", "Reply to Objection 2. r"} -> {"2."}
      [] line \in {"3. o", "Reply to Objection 3. r"} -> {"3."}
      [] line \in {"On the contrary...", "On the contrary, one may hold that s",
                   "On the contrary, the strongest objection states that o"}
           -> {"on the contrary"}
      [] line = "I answer that..." -> {"i answer that"}
      [] line = "On the contrary, I answer that s" -> {"on the contrary", "i answer that"}
      [] line = "Replies to objections:" -> {"replies to objections", "objections:"}
      [] OTHER -> {}

required_markers ==
    {"question:", "objections:", "on the contrary", "i answer that", "replies to objections"}

\* _split_summa_blocks: re.split(r"\n\s*---\s*\n", rendering.strip()). A rule
\* splits when a newline precedes it that the previous match has not taken
\* and a newline follows it (it is not the last line): in a run of rules
\* with only blank lines between them every second rule splits, the first
\* one unless the run starts the text. The blocks are stripped and the
\* blank ones dropped.
SplitSummaBlocks(rendering) ==
    LET lines == Strip(rendering)
        n == Len(lines)
        \* The first line of the run of rules and blank lines that holds line i.
        RunStart(i) == CHOOSE j \in 1..i :
                          /\ \A k \in j..i : lines[k] \in {Rule, SP}
                          /\ \A k \in 1..(j - 1) : \E x \in k..i : lines[x] \notin {Rule, SP}
        RulesUpTo(i) == Cardinality({k \in RunStart(i)..i : lines[k] = Rule})
        Splits(i) == /\ lines[i] = Rule
                     /\ i < n
                     /\ RulesUpTo(i) % 2 = (IF RunStart(i) = 1 THEN 0 ELSE 1)
        cuts == {i \in 1..n : Splits(i)}
        m == Cardinality(cuts)
        Nth(k) == CHOOSE c \in cuts : Cardinality({d \in cuts : d < c}) = k - 1
        From(k) == IF k = 1 THEN 1 ELSE Nth(k - 1) + 1
        To(k) == IF k = m + 1 THEN n ELSE Nth(k) - 1
        raw_blocks == [k \in 1..(m + 1) |-> Strip(SubSeq(lines, From(k), To(k)))]
    IN SelectSeq(raw_blocks, LAMBDA block : block # <<>>)

\* The checks of _is_valid_summa_rendering on one block.
ValidBlock(block) ==
    LET found == UNION {Contains(block[k]) : k \in 1..Len(block)} IN
    /\ required_markers \subseteq found
    /\ {"1.", "2.", "3."} \subseteq found
    /\ \A k \in 1..Len(block) :
          ~({"on the contrary", "i answer that"} \subseteq Contains(block[k]))

\* _is_valid_summa_rendering: only the first expected_blocks blocks are
\* checked.
IsValidSummaRendering(rendering, expected_blocks) ==
    LET blocks == SplitSummaBlocks(rendering) IN
    /\ rendering # <<>>
    /\ Len(blocks) >= expected_blocks
    /\ \A b \in 1..expected_blocks : ValidBlock(blocks[b])

\* _pick_competitor_id: the second of the ranking for the first selected
\* hypothesis, the first of the ranking for the others; NoId for None.
PickCompetitorId(ranked, selected_index) ==
    IF selected_index = 0
    THEN IF Len(ranked) > 1 THEN ranked[2] ELSE NoId
    ELSE IF ranked # <<>> THEN ranked[1] ELSE NoId

\* _compose_on_the_contrary.
ComposeOnTheContrary(has_competitor) ==
    IF has_competitor THEN "On the contrary, one may hold that s"
    ELSE "On the contrary, the strongest objection states that o"

\* The block _build_summa_rendering writes for one hypothesis.
BuildBlock(hypothesis, has_competitor) ==
    LET objections == EnsureObjections(hypothesis.objections)
        replies == EnsureReplies(hypothesis.replies)
    IN Strip(<<"Question: q", SP, "Objections:">>
             \o [k \in 1..Len(objections) |-> ObjectionLine(objections[k])]
             \o <<SP, "On the contrary...", ComposeOnTheContrary(has_competitor), SP,
                  "I answer that...", "s", SP, "Replies to objections:">>
             \o [k \in 1..Len(replies) |-> ReplyLine(replies[k])])

\* _build_summa_rendering: one block per id of ranked_ids[:top] that is the
\* id of a hypothesis, joined by rules.
BuildSummaRendering(hyps, ranked, top_count) ==
    LET selected == SelectSeq(Take(ranked, top_count), LAMBDA id : id \in Range(Ids(hyps)))
        ById(id) == hyps[CHOOSE i \in 1..Len(hyps) :
                           /\ hyps[i].id = id
                           /\ \A j \in (i + 1)..Len(hyps) : hyps[j].id # id]
        Block(k) == BuildBlock(ById(selected[k]),
                               PickCompetitorId(ranked, k - 1) \in Range(Ids(hyps)))
        RECURSIVE Join(_)
        Join(k) == IF k > Len(selected) THEN <<>>
                   ELSE (IF k = 1 THEN <<>> ELSE <<Rule>>) \o Block(k) \o Join(k + 1)
    IN Join(1)

\* _ensure_summa_rendering.
EnsureSummaRendering(raw_rendering, hyps, ranked, top_count) ==
    LET cleaned == Strip(raw_rendering)
        least == IF top_count < Len(ranked) THEN top_count ELSE Len(ranked)
        target_blocks == IF least > 1 THEN least ELSE 1
    IN IF IsValidSummaRendering(cleaned, target_blocks)
       THEN cleaned
       ELSE BuildSummaRendering(hyps, ranked, top_count)

----------------------------------------------------------------------------

(* The composer stage of crew_v2_stages.py. The oracle's output is a       *)
(* sequence of lines: a blank line SP, a fence, a line of prose, or a line *)
(* holding a JSON value.                                                   *)

\* A line of three backticks, alone or followed by a tag.
Fence == "fence"
FenceJson == "fence json"
FenceMarkdown == "fence markdown"

JsonObjects == {"{rendering}", "{blank}"}
JsonValues == JsonObjects \cup {"[1]"}

\* The two substitutions of _parse_json_object and of the composer stage:
\* a fence at the start goes with the blanks after it, a fence at the end
\* with the blanks before it. The lines of tags are the opening fences the
\* first pattern takes whole; of any other opening fence it takes the
\* backticks and leaves the tag as prose.
StripFences(text, tags) ==
    LET head == IF text = <<>> THEN text
                ELSE IF Head(text) \in tags THEN LStrip(Tail(text))
                ELSE IF Head(text) \in {FenceJson, FenceMarkdown}
                     THEN <<"tag">> \o Tail(text)
                ELSE text
    IN IF head # <<>> /\ head[Len(head)] = Fence
       THEN RStrip(SubSeq(head, 1, Len(head) - 1))
       ELSE head

\* _parse_json_object on the lines of an output: json.loads of the text
\* without fences, else of the span from the first to the last brace.
ParseJsonLines(raw) ==
    LET text == StripFences(Strip(raw), {Fence, FenceJson})
        braces == {i \in 1..Len(text) : text[i] \in JsonObjects}
        first == CHOOSE i \in braces : \A j \in braces : i <= j
        last == CHOOSE i \in braces : \A j \in braces : j <= i
    IN IF Len(text) = 1 /\ text[1] \in JsonValues
       THEN [ok |-> text[1] \in JsonObjects, value |-> text[1]]
       ELSE IF braces = {} \/ first # last
            THEN [ok |-> FALSE, value |-> ""]
            ELSE [ok |-> TRUE, value |-> text[first]]

\* _run_summa_composer_stage on the output of the oracle: the parsed object
\* when it holds a summa_rendering that is not blank, else the output
\* without its fences; ok = FALSE when it raises ValueError.
RunSummaComposerStage(raw) ==
    LET parsed == ParseJsonLines(raw)
        cleaned == StripFences(Strip(raw), {Fence, FenceMarkdown})
    IN IF parsed.ok /\ parsed.value = "{rendering}"
       THEN [ok |-> TRUE, summa_rendering |-> <<"rendering">>]
       ELSE IF cleaned = <<>>
            THEN [ok |-> FALSE, summa_rendering |-> <<>>]
            ELSE [ok |-> TRUE, summa_rendering |-> cleaned]

----------------------------------------------------------------------------

(* The contract validator (v2_contracts.py).                               *)

\* has_doi of validate_citations_against_papers: a string that is not blank.
HasDoi(c) == c.doi # NoDoi /\ Strip(c.doi) # <<>>

\* A faulty variant of CitationGrounded that does not look at the catalog.
CitationWellFormed(c, papers) ==
    /\ c.title # ""
    /\ c.authors # <<>>
    /\ c.year # 0
    /\ (c.paper_id # "" \/ HasDoi(c))

\* The issues validate_citations_against_papers finds in one citation.
CitationGrounded(c, papers) ==
    /\ c.title # ""
    /\ c.authors # <<>>
    /\ c.year # 0
    /\ (c.paper_id # "" \/ HasDoi(c))
    /\ \/ c.paper_id # "" /\ c.paper_id \in ValidIds(papers)
       \/ HasDoi(c) /\ NormalizeDoi(c.doi) \in ValidDois(papers)

\* The hypothesis schema (schemas/hypothesis_schema.json), as far as the
\* model's hypotheses can break it: objections, replies, pairwise_record
\* and scores are required.
SchemaConforms(hyps) ==
    \A i \in 1..Len(hyps) :
        hyps[i].objections # <<>> /\ hyps[i].replies # <<>> /\ hyps[i].scored

ValidateHypothesisIds(hyps, ranked) ==
    /\ \A i, j \in 1..Len(hyps) : hyps[i].id = hyps[j].id => i = j
    /\ Range(ranked) = Range(Ids(hyps))

ValidateHypothesisTriplets(hyps) ==
    \A i \in 1..Len(hyps) :
        SortAsc(hyps[i].objections) = <<1, 2, 3>> /\ SortAsc(hyps[i].replies) = <<1, 2, 3>>

ValidatePairwiseReferences(hyps) ==
    \A i \in 1..Len(hyps) : \A k \in 1..Len(hyps[i].comparisons) :
        LET c == hyps[i].comparisons[k] IN
        c.a \in Range(Ids(hyps)) /\ c.b \in Range(Ids(hyps)) /\ c.a # c.b

\* abs(overall - expected) <= 0.06, in units of 1e-5.
ValidateScoreFormula(hyps) ==
    \A i \in 1..Len(hyps) :
        LET sc == hyps[i].scores
            diff == 100 * sc.overall
                    - (35 * sc.novelty + 30 * sc.plausibility + 35 * sc.testability)
        IN diff <= 6000 /\ -diff <= 6000

ValidateCitationGrounding(hyps, papers) ==
    \A i \in 1..Len(hyps) : \A k \in 1..Len(hyps[i].citations) :
        CitationGrounded(hyps[i].citations[k], papers)

\* validate_v2_payload: TRUE when it returns, FALSE when it raises
\* ContractValidationError. grounded_papers.given = FALSE is
\* grounded_papers=None.
ValidatePayload(hyps, ranked, grounded_papers) ==
    /\ SchemaConforms(hyps)
    /\ ValidateHypothesisIds(hyps, ranked)
    /\ ValidateHypothesisTriplets(hyps)
    /\ ValidatePairwiseReferences(hyps)
    /\ ValidateScoreFormula(hyps)
    /\ grounded_papers.given => ValidateCitationGrounding(hyps, grounded_papers.papers)

\* validate_v2_payload(final_payload, grounded_papers=papers).
ValidateV2Payload(hyps, ranked, papers) ==
    ValidatePayload(hyps, ranked, [given |-> TRUE, papers |-> papers])

----------------------------------------------------------------------------
(* hypothesis_generator and the diversity gate.                            *)

MinDistinct == 3

GenItems ==
    {NonDict,
     Item(NoId, <<CiteP1, CiteP9>>, <<>>, <<>>),
     Item(HId(2), <<CiteBlankAuthor>>, <<>>, <<>>)}

\* The generator's object: `hypotheses` is a list of items, or no list.
GenBodies ==
    {[listed |-> FALSE, items |-> <<>>]}
    \cup {[listed |-> TRUE, items |-> l] : l \in SeqsUpTo(GenItems, MaxItems)}
NoBody == [listed |-> FALSE, items |-> <<>>]

DiversityStage == "hypothesis_generator_diversity_retry"

\* diversity_objective of _regenerate_for_diversity.
HardConstraint ==
    <<" Hard constraint: produce at least 3 genuinely distinct hypotheses ",
      "across mechanism, empirical domain, or theoretical framework.">>
diversity_objective == default_objective \o HardConstraint

\* A faulty variant of NeedsDiversity that lets two hypotheses pass.
NeedsDiversityBelowTwo(hyps) == Len(hyps) < 2

\* `if len(normalized_hypotheses) < 3`.
NeedsDiversity(hyps) == Len(hyps) < MinDistinct

\* A faulty variant of AfterGate that always goes back to the critic.
AfterGateCritic == "critic"

\* Where run_summa_v2 goes on after the diversity gate.
AfterGate == IF "critic" \in DOMAIN stage_outputs THEN "ranker" ELSE "critic"

Frame == <<fn, question, top, problem_memo, queries, merged, errors, search_requests,
           retrieval_result>>

HypothesisGenerator ==
    /\ pc = "hypothesis_generator"
    /\ \E raw \in OracleRaw(GenBodies, NoBody) :
         LET r == RunJsonStage(raw)
             normalized == NormalizeGeneratedHypotheses(r.body.items, retrieval_result.papers)
         IN
         /\ Invoked("hypothesis_generator", default_objective, r)
         /\ IF ~r.ok
            THEN AttemptFailed("hypothesis_generator", r.msg)
            ELSE /\ stage_outputs' =
                        Put(stage_outputs, "hypothesis_generator", "hypothesis_generator")
                 /\ IF ~r.body.listed
                    THEN /\ Escape("ValueError")
                         /\ UNCHANGED <<started, gate, normalized_hypotheses,
                                        normalized_from>>
                    ELSE /\ normalized_hypotheses' = normalized
                         /\ normalized_from' = "hypothesis_generator"
                         /\ gate' = [stage |-> "hypothesis_generator",
                                     count |-> Len(normalized)]
                         /\ IF NeedsDiversity(normalized)
                            THEN BeginStage(DiversityStage)
                            ELSE BeginStage("critic")
                 /\ UNCHANGED <<Frame, ranked_ids, summa_rendering, validations>>

\* _regenerate_for_diversity.
DiversityRetry ==
    /\ pc = DiversityStage
    /\ \E raw \in OracleRaw(GenBodies, NoBody) :
         LET r == RunJsonStage(raw)
             normalized == NormalizeGeneratedHypotheses(r.body.items, retrieval_result.papers)
         IN
         /\ Invoked(DiversityStage, diversity_objective, r)
         /\ IF ~r.ok
            THEN AttemptFailed(DiversityStage, r.msg)
            ELSE /\ stage_outputs' = Put(stage_outputs, DiversityStage, DiversityStage)
                 /\ IF ~r.body.listed
                    THEN /\ Escape("ValueError")
                         /\ UNCHANGED <<started, gate, normalized_hypotheses,
                                        normalized_from>>
                    ELSE /\ gate' = [stage |-> DiversityStage, count |-> Len(normalized)]
                         /\ IF NeedsDiversity(normalized)
                            THEN /\ CatchStageFailure(DiversityStage,
                                       <<"Diversity retry still produced fewer than 3 distinct hypotheses.">>)
                                 /\ UNCHANGED <<started, normalized_hypotheses,
                                                normalized_from>>
                            ELSE /\ normalized_hypotheses' = normalized
                                 /\ normalized_from' = DiversityStage
                                 /\ BeginStage(AfterGate)
                 /\ UNCHANGED <<Frame, ranked_ids, summa_rendering, validations>>

----------------------------------------------------------------------------
(* critic.                                                                 *)

Echo(h, objs) == Item(h.id, h.citations, objs, <<2>>)

\* The critic's object, given the hypotheses it was shown: no list; the
\* hypotheses with their objections; the same with an objection numbered 0;
\* only the first two; a list without any object; an additional hypothesis;
\* three additional hypotheses after all those shown.
CriticBodies(hyps) ==
    LET all == [i \in 1..Len(hyps) |-> Echo(hyps[i], <<3, 1>>)]
        zero == [i \in 1..Len(hyps) |->
                    Echo(hyps[i], IF i = 1 THEN <<0>> ELSE <<3, 1>>)]
    IN {[listed |-> FALSE, items |-> <<>>],
        [listed |-> TRUE, items |-> all],
        [listed |-> TRUE, items |-> zero],
        [listed |-> TRUE, items |-> Take(all, 2)],
        [listed |-> TRUE, items |-> <<NonDict>>],
        [listed |-> TRUE, items |-> Take(all, 2) \o <<Item(<<"zz", 0>>, <<>>, <<>>, <<>>),
                                                    Echo(hyps[1], <<>>)>>],
        [listed |-> TRUE,
         items |-> all \o [i \in 1..3 |-> Item(<<"zz", i>>, <<>>, <<>>, <<>>)]]}

Critic ==
    /\ pc = "critic"
    /\ \E raw \in OracleRaw(CriticBodies(normalized_hypotheses), NoBody) :
         LET r == RunJsonStage(raw)
             n == NormalizeCriticHypotheses(r.body.listed, r.body.items,
                                            normalized_hypotheses, retrieval_result.papers)
         IN
         /\ Invoked("critic", <<>>, r)
         /\ IF ~r.ok
            THEN AttemptFailed("critic", r.msg)
            ELSE /\ stage_outputs' = Put(stage_outputs, "critic", "critic")
                 /\ IF ~n.usable
                    THEN /\ Escape("ValueError")
                         /\ UNCHANGED <<started, gate, normalized_hypotheses,
                                        normalized_from>>
                    ELSE /\ normalized_hypotheses' = n.hypotheses
                         /\ normalized_from' = "critic"
                         /\ gate' = [stage |-> "critic", count |-> Len(n.hypotheses)]
                         /\ IF NeedsDiversity(n.hypotheses)
                            THEN BeginStage(DiversityStage)
                            ELSE BeginStage("ranker")
                 /\ UNCHANGED <<Frame, ranked_ids, summa_rendering, validations>>

----------------------------------------------------------------------------
(* ranker.                                                                 *)

NonDictComparison == [dict |-> FALSE, a |-> NoId, b |-> NoId, novelty |-> "",
                      plausibility |-> "", testability |-> ""]

\* The ranker's object, given the ids it was shown: no `comparisons` list;
\* the last hypothesis beating the first; a list with a repeated pair, a
\* self-pair, an unknown id and an item that is no object.
RankerBodies(ids) ==
    {[listed |-> FALSE, items |-> <<>>],
     [listed |-> TRUE, items |-> <<Comparison(ids[Len(ids)], ids[1], "a", "A", "a")>>],
     [listed |-> TRUE,
      items |-> <<Comparison(ids[1], ids[2], "A", "b", "x"),
                  Comparison(ids[2], ids[1], "a", "a", "a"),
                  Comparison(ids[1], ids[1], "a", "a", "a"),
                  Comparison(ids[1], <<"zz", 9>>, "a", "a", "a"),
                  NonDictComparison>>]}

Ranker ==
    /\ pc = "ranker"
    /\ \E raw \in OracleRaw(RankerBodies(Ids(normalized_hypotheses)), NoBody) :
         LET r == RunJsonStage(raw)
             ranking == ApplyPairwiseRanking(normalized_hypotheses, r.body.listed,
                                             r.body.items)
         IN
         /\ Invoked("ranker", <<>>, r)
         /\ IF ~r.ok
            THEN AttemptFailed("ranker", r.msg)
            ELSE /\ stage_outputs' = Put(stage_outputs, "ranker", "ranker")
                 /\ IF ~ranking.ok
                    THEN /\ Escape("ValueError")
                         /\ UNCHANGED <<started, normalized_hypotheses, ranked_ids>>
                    ELSE /\ ranked_ids' = ranking.ranked
                         /\ normalized_hypotheses' = ranking.hypotheses
                         /\ BeginStage("summa_composer")
                 /\ UNCHANGED <<Frame, gate, normalized_from, summa_rendering, validations>>

----------------------------------------------------------------------------
(* summa_composer and the validation of the final payload.                 *)

\* The composer's object: a blank summa_rendering (a missing key or a value
\* that is no string is rejected alike), or a text.
ComposerBodies == {[rendering |-> <<SP>>], [rendering |-> <<"summa", SP>>]}
NoRendering == [rendering |-> <<>>]

\* _require_nonempty_str raises ValueError on a blank value.
IsNonEmptyStr(text) == Strip(text) # <<>>

ComposerRetryStage == "summa_composer_retry"

SummaComposer ==
    /\ pc = "summa_composer"
    /\ \E raw \in OracleRaw(ComposerBodies, NoRendering) :
         LET r == RunJsonStage(raw)
             valid == ValidateV2Payload(normalized_hypotheses, ranked_ids,
                                        retrieval_result.papers)
         IN
         /\ Invoked("summa_composer", <<>>, r)
         /\ IF ~r.ok
            THEN AttemptFailed("summa_composer", r.msg)
            ELSE /\ stage_outputs' = Put(stage_outputs, "summa_composer", "summa_composer")
                 /\ IF ~IsNonEmptyStr(r.body.rendering)
                    THEN /\ Escape("ValueError")
                         /\ UNCHANGED <<started, summa_rendering, validations>>
                    ELSE /\ summa_rendering' = Strip(r.body.rendering)
                         /\ validations' = <<valid>>
                         /\ IF valid
                            THEN /\ Terminate("final", "", NoError)
                                 /\ UNCHANGED started
                            ELSE BeginStage(ComposerRetryStage)
                 /\ UNCHANGED <<Frame, gate, normalized_hypotheses, normalized_from,
                                ranked_ids>>

\* A faulty variant of ComposerRetry that puts the ranking back into the
\* order of the hypotheses.
ComposerRetryReranking ==
    /\ pc = ComposerRetryStage
    /\ \E raw \in OracleRaw(ComposerBodies, NoRendering) :
         LET r == RunJsonStage(raw)
             valid == ValidateV2Payload(normalized_hypotheses, ranked_ids,
                                        retrieval_result.papers)
         IN
         /\ Invoked(ComposerRetryStage, <<>>, r)
         /\ IF ~r.ok
            THEN /\ Escape(r.type)
                 /\ UNCHANGED <<stage_outputs, summa_rendering, validations>>
            ELSE /\ stage_outputs' = Put(stage_outputs, ComposerRetryStage, ComposerRetryStage)
                 /\ IF ~IsNonEmptyStr(r.body.rendering)
                    THEN /\ Escape("ValueError")
                         /\ UNCHANGED <<summa_rendering, validations>>
                    ELSE /\ summa_rendering' = Strip(r.body.rendering)
                         /\ validations' = Append(validations, valid)
                         /\ IF valid
                            THEN Terminate("final", "", NoError)
                            ELSE Escape("ContractValidationError")
         /\ ranked_ids' = Ids(normalized_hypotheses)
         /\ UNCHANGED <<Frame, started, gate, normalized_hypotheses, normalized_from>>

\* The except ContractValidationError clause of run_summa_v2: one more
\* composer call, outside the stage runner, and the revalidation.
\* summa_rendering stands for final_payload["summa_rendering"] here.
ComposerRetry ==
    /\ pc = ComposerRetryStage
    /\ \E raw \in OracleRaw(ComposerBodies, NoRendering) :
         LET r == RunJsonStage(raw)
             valid == ValidateV2Payload(normalized_hypotheses, ranked_ids,
                                        retrieval_result.papers)
         IN
         /\ Invoked(ComposerRetryStage, <<>>, r)
         /\ IF ~r.ok
            THEN /\ Escape(r.type)
                 /\ UNCHANGED <<stage_outputs, summa_rendering, validations>>
            ELSE /\ stage_outputs' = Put(stage_outputs, ComposerRetryStage, ComposerRetryStage)
                 /\ IF ~IsNonEmptyStr(r.body.rendering)
                    THEN /\ Escape("ValueError")
                         /\ UNCHANGED <<summa_rendering, validations>>
                    ELSE /\ summa_rendering' = Strip(r.body.rendering)
                         /\ validations' = Append(validations, valid)
                         /\ IF valid
                            THEN Terminate("final", "", NoError)
                            ELSE Escape("ContractValidationError")
         /\ UNCHANGED <<Frame, started, gate, normalized_hypotheses, normalized_from,
                        ranked_ids>>

Next ==
    \/ Start
    \/ ProblemFramer
    \/ SearchRequest
    \/ LiteratureScout
    \/ HypothesisGenerator
    \/ DiversityRetry
    \/ Critic
    \/ Ranker
    \/ SummaComposer
    \/ ComposerRetry

Spec == Init /\ [][Next]_vars

----------------------------------------------------------------------------
(* The functions of the program applied on their own.                      *)

\* Citations a stage output can hold: grounded by paper_id, by DOI (written
\* with a prefix and blanks), by both, by neither, with a blank DOI, one
\* without title and one whose only author is blank.
FnCitations ==
    {[paper_id |-> pid, doi |-> d, title |-> "t", authors |-> <<<<"a">>>>, year |-> 2020] :
        pid \in {"", "p1", "p9"}, d \in {NoDoi, <<"10.1/X">>}}
    \cup {[paper_id |-> "", doi |-> d, title |-> "t", authors |-> <<<<"a">>>>, year |-> 2020] :
        d \in {<<SP, "DOI:", "10.1/X">>, <<"10.2/y">>, <<SP>>}}
    \cup {[paper_id |-> "p1", doi |-> NoDoi, title |-> "", authors |-> <<<<"a">>>>,
           year |-> 2020],
          [paper_id |-> "p1", doi |-> NoDoi, title |-> "t", authors |-> <<<<SP>>>>,
           year |-> 2020]}

\* Papers of a catalog: with id and DOI, with a DOI that is only the prefix,
\* with an id only.
FnPapers ==
    {P1,
     [paper_id |-> "", doi |-> <<"DOI:">>, title |-> "t2", authors |-> <<<<"a">>>>,
      year |-> 2021],
     [paper_id |-> "p3", doi |-> <<>>, title |-> "t3", authors |-> <<<<"b">>>>,
      year |-> 2022]}

ApplySanitizeCitations ==
    /\ pc = "fn" /\ fn = NoFn
    /\ \E citations \in SeqsUpTo(FnCitations, MaxCites),
          papers \in SeqsUpTo(FnPapers, MaxCatalog) :
         fn' = [op |-> "sanitize_citations", citations |-> citations, papers |-> papers,
                out |-> SanitizeCitations(citations, papers),
                again |-> SanitizeCitations(SanitizeCitations(citations, papers), papers)]
    /\ UNCHANGED pipeline

\* An item of an `objections` or `replies` list: usable (an object with an
\* integer number and a text that is not blank) with its number, or not.
FnTripletItems ==
    {[usable |-> TRUE, number |-> n] : n \in 0..4} \cup {[usable |-> FALSE, number |-> 1]}

\* The raw value: no list, or a list of items.
FnTripletInputs ==
    {[listed |-> FALSE, items |-> <<>>]}
    \cup {[listed |-> TRUE, items |-> l] : l \in SeqsUpTo(FnTripletItems, MaxTriplet)}

\* The numbers of the usable items of a raw value, in order.
UsableNumbers(raw) ==
    LET kept == SelectSeq(raw.items, LAMBDA item : item.usable)
    IN IF raw.listed THEN [i \in 1..Len(kept) |-> kept[i].number] ELSE <<>>

ApplyEnsureObjections ==
    /\ pc = "fn" /\ fn = NoFn
    /\ \E raw \in FnTripletInputs :
         fn' = [op |-> "ensure_objections", raw |-> raw,
                out |-> EnsureObjections(UsableNumbers(raw)),
                again |-> EnsureObjections(EnsureObjections(UsableNumbers(raw)))]
    /\ UNCHANGED pipeline

ApplyEnsureReplies ==
    /\ pc = "fn" /\ fn = NoFn
    /\ \E raw \in FnTripletInputs :
         fn' = [op |-> "ensure_replies", raw |-> raw,
                out |-> EnsureReplies(UsableNumbers(raw)),
                again |-> EnsureReplies(EnsureReplies(UsableNumbers(raw)))]
    /\ UNCHANGED pipeline

\* The hypotheses h1 .. hn handed to the ranker.
FnHypotheses(n) == [i \in 1..n |-> Hypothesis(HId(i), <<>>, <<1, 2, 3>>, <<1, 2, 3>>)]

\* Items of a `comparisons` list that need not be usable: between h1, h2 and
\* an unknown id in every combination, with a missing id on either side,
\* with winners written "A", "b" and "x", and an item that is no object.
FnComparisonItems ==
    {Comparison(a, b, "A", "b", "x") : a, b \in {HId(1), HId(2), <<"zz", 9>>}}
    \cup {Comparison(NoId, HId(1), "A", "b", "x"), Comparison(HId(1), NoId, "A", "b", "x"),
          NonDictComparison}

\* The winners of one comparison in (novelty, plausibility, testability).
FnWinners == {<<"a", "b", "tie">>, <<"b", "tie", "a">>, <<"tie", "a", "b">>}

\* The `comparisons` lists that decide every pair of h1 .. hn once, the
\* winners of the pair of hi and hj chosen per distance j - i.
FnCompleteComparisons(n) ==
    LET pairs == SortedPairs(Ids(FnHypotheses(n)))
    IN {[k \in 1..Len(pairs) |->
            LET won == w[pairs[k][2][2] - pairs[k][1][2]]
            IN Comparison(pairs[k][1], pairs[k][2], won[1], won[2], won[3])] :
          w \in [1..(n - 1) -> FnWinners]}

\* The ranker outputs tried on h1 .. hn: the complete lists, and for up to
\* MinDistinct hypotheses every short list of items.
FnRankerOutputs(n) ==
    FnCompleteComparisons(n)
    \cup (IF n <= MinDistinct THEN SeqsUpTo(FnComparisonItems, MaxComparisons) ELSE {})

ApplyRanking ==
    /\ pc = "fn" /\ fn = NoFn
    /\ \E n \in 1..MaxRank : \E comparisons \in FnRankerOutputs(n) :
         fn' = [op |-> "apply_pairwise_ranking", hypotheses |-> FnHypotheses(n),
                comparisons |-> comparisons,
                out |-> ApplyPairwiseRanking(FnHypotheses(n), TRUE, comparisons)]
    /\ UNCHANGED pipeline

\* A comparison with its two sides exchanged: a for b, and every winner
\* "a" for "b" (ties and unreadable winners stay).
SwapSides(c) ==
    LET Flip(w) == IF Lower(w) = "a" THEN "b" ELSE IF Lower(w) = "b" THEN "a" ELSE w
    IN IF c.dict
       THEN Comparison(c.b, c.a, Flip(c.novelty), Flip(c.plausibility), Flip(c.testability))
       ELSE c

ApplyRankingByPoints ==
    /\ pc = "fn" /\ fn = NoFn
    /\ \E n \in 1..MaxRank : \E comparisons \in FnRankerOutputs(n) :
         fn' = [op |-> "apply_pairwise_ranking_by_points", hypotheses |-> FnHypotheses(n),
                comparisons |-> comparisons,
                points |-> RankingPoints(FnHypotheses(n), comparisons),
                swapped |-> [k \in 1..Len(comparisons) |->
                                ApplyPairwiseRankingByPoints(
                                    FnHypotheses(n), TRUE,
                                    [comparisons EXCEPT ![k] = SwapSides(@)])],
                out |-> ApplyPairwiseRankingByPoints(FnHypotheses(n), TRUE, comparisons)]
    /\ UNCHANGED pipeline

\* Pieces of a raw rendering: a block as the renderer writes it, a block
\* whose "On the contrary" and "I answer that" share a line, a line without
\* markers, a rule and a blank line.
FnSegments ==
    {BuildBlock(FnHypotheses(1)[1], TRUE),
     <<"Question: q", "Objections:", "1. o", "2. o", "3. o",
       "On the contrary, I answer that s", "Replies to objections:">>,
     <<"summa">>,
     <<Rule>>,
     <<SP>>}

RECURSIVE Flatten(_)
Flatten(pieces) == IF pieces = <<>> THEN <<>> ELSE Head(pieces) \o Flatten(Tail(pieces))

FnRawRenderings == {Flatten(pieces) : pieces \in SeqsUpTo(FnSegments, MaxSegments)}

ApplyEnsureSummaRendering ==
    /\ pc = "fn" /\ fn = NoFn
    /\ \E raw \in FnRawRenderings, n \in 1..MaxRank, top_count \in {1, 3} :
         fn' = [op |-> "ensure_summa_rendering", raw |-> raw,
                hypotheses |-> FnHypotheses(n), ranked |-> Ids(FnHypotheses(n)),
                top |-> top_count,
                out |-> EnsureSummaRendering(raw, FnHypotheses(n), Ids(FnHypotheses(n)),
                                             top_count)]
    /\ UNCHANGED pipeline

\* The outputs of the oracle handed to the composer stage.
FnComposerLines == {SP, Fence, FenceMarkdown, FenceJson, "text"} \cup JsonValues
FnComposerOutputs == SeqsUpTo(FnComposerLines, MaxOutputLines)

ApplyRunSummaComposerStage ==
    /\ pc = "fn" /\ fn = NoFn
    /\ \E raw \in FnComposerOutputs :
         fn' = [op |-> "run_summa_composer_stage", raw |-> raw,
                out |-> RunSummaComposerStage(raw)]
    /\ UNCHANGED pipeline

\* Citations of a payload handed to the validator: grounded by paper_id,
\* by DOI, by neither, with a blank DOI only, with an unknown paper_id.
FnPayloadCitations ==
    {[paper_id |-> pid, doi |-> d, title |-> "t", authors |-> <<<<"a">>>>, year |-> 2020] :
        pid \in {"", "p1"}, d \in {NoDoi, <<SP, "DOI:", "10.1/X">>}}
    \cup {[paper_id |-> "", doi |-> <<SP>>, title |-> "t", authors |-> <<<<"a">>>>,
           year |-> 2020],
          [paper_id |-> "p9", doi |-> NoDoi, title |-> "t", authors |-> <<<<"a">>>>,
           year |-> 2020]}

\* The catalog argument: none, or a list of papers.
FnCatalogs ==
    {[given |-> FALSE, papers |-> <<>>]}
    \cup {[given |-> TRUE, papers |-> l] : l \in SeqsUpTo(FnPapers, MaxCatalog)}

\* A payload of one ranked hypothesis with the given citations; `complete`
\* = FALSE leaves out its objections.
FnPayload(citations, complete) ==
    ApplyPairwiseRanking(
        <<Hypothesis(HId(1), citations, IF complete THEN <<1, 2, 3>> ELSE <<>>, <<1, 2, 3>>)>>,
        TRUE, <<>>)

ApplyValidatePayload ==
    /\ pc = "fn" /\ fn = NoFn
    /\ \E citations \in SeqsUpTo(FnPayloadCitations, MaxCites),
          grounded_papers \in FnCatalogs, complete \in BOOLEAN :
         LET payload == FnPayload(citations, complete) IN
         fn' = [op |-> "validate_v2_payload", hypotheses |-> payload.hypotheses,
                complete |-> complete, grounded_papers |-> grounded_papers,
                out |-> ValidatePayload(payload.hypotheses, payload.ranked, grounded_papers)]
    /\ UNCHANGED pipeline

\* A stage run on its own: the stage, its objective and what the oracle
\* does at the first and at the second call.
FnStageBodies == {"b"}

ApplyRunStageWithRetry ==
    /\ pc = "fn" /\ fn = NoFn
    /\ \E stage \in {"problem_framer", "hypothesis_generator"},
          objective \in {<<>>, default_objective},
          first \in OracleRaw(FnStageBodies, ""), second \in OracleRaw(FnStageBodies, "") :
         fn' = [op |-> "run_stage_with_retry", stage |-> stage, objective |-> objective,
                raws |-> <<first, second>>,
                out |-> RunStageWithRetry(stage, objective, <<first, second>>)]
    /\ UNCHANGED pipeline

\* The longest `hypotheses` list given to the generator normalizer.
MaxGenerated == 6

\* The text lists of an item: no list, a list of blanks, a list with a text.
FnNoTexts == [listed |-> FALSE, items |-> <<>>]
FnBlankTexts == [listed |-> TRUE, items |-> <<<<SP>>>>]
FnSomeTexts == [listed |-> TRUE, items |-> <<<<SP>>, <<SP, "p", SP>>>>]

\* Items of a generator's `hypotheses` list: without id, with the ids h2
\* and zz9, and an item that is no object.
FnGeneratedItem(id, cites, predictions, experiments) ==
    [dict |-> TRUE, id |-> id, citations |-> cites, objections |-> <<>>, replies |-> <<>>,
     falsifiable_predictions |-> predictions, minimal_experiments |-> experiments]
FnGeneratedItems ==
    {FnGeneratedItem(NoId, <<CiteP9>>, FnNoTexts, FnSomeTexts),
     FnGeneratedItem(HId(2), <<CiteP1>>, FnBlankTexts, FnNoTexts),
     FnGeneratedItem(<<"zz", 9>>, <<>>, FnSomeTexts, FnBlankTexts),
     [dict |-> FALSE, id |-> NoId, citations |-> <<>>, objections |-> <<>>,
      replies |-> <<>>, falsifiable_predictions |-> FnNoTexts,
      minimal_experiments |-> FnNoTexts]}

ApplyNormalizeGenerated ==
    /\ pc = "fn" /\ fn = NoFn
    /\ \E items \in SeqsUpTo(FnGeneratedItems, MaxGenerated) :
         fn' = [op |-> "normalize_generated_hypotheses", items |-> items,
                out |-> NormalizeGeneratedPostprocess(items, <<P1>>)]
    /\ UNCHANGED pipeline

\* Items of a critic's `hypotheses` list: no object, an object without id,
\* and usable objects.
FnCriticItems ==
    {NonDict,
     Item(NoId, <<CiteP1>>, <<1, 2, 3>>, <<1, 2, 3>>),
     Item(HId(1), <<CiteP9>>, <<0>>, <<>>),
     Item(HId(2), <<CiteP1>>, <<1, 2, 3>>, <<1, 2, 3>>)}

\* The critic's object: `hypotheses` absent or no list, or a list of items.
FnCriticOutputs ==
    {[listed |-> FALSE, items |-> <<>>]}
    \cup {[listed |-> TRUE, items |-> l] : l \in SeqsUpTo(FnCriticItems, MaxItems)}

\* The previously normalized hypotheses: as the generator normalizer of
\* crew_v2.py leaves them (without triplets), or with their triplets.
FnPrevious ==
    {[i \in 1..n |-> Hypothesis(HId(i), <<CiteP1>>, t, t)] :
        n \in 1..MinDistinct, t \in {<<>>, <<1, 2, 3>>}}

ApplyNormalizeCritic ==
    /\ pc = "fn" /\ fn = NoFn
    /\ \E critic \in FnCriticOutputs, previous \in FnPrevious :
         fn' = [op |-> "normalize_critic_hypotheses", critic |-> critic,
                previous |-> previous,
                out |-> NormalizeCriticHypotheses(critic.listed, critic.items, previous,
                                                  <<P1>>)]
    /\ UNCHANGED pipeline

\* The longest list of records in one answer of the search service.
MaxRecords == 2

\* Papers the search service can return: two with the paper_id p1, two
\* without paper_id whose DOIs differ in case and prefix only, and two
\* without paper_id and DOI whose titles differ in case only.
FnRetrieved ==
    {P1,
     [paper_id |-> "p1", doi |-> <<>>, title |-> "t2", authors |-> <<<<"b">>>>, year |-> 2021],
     [paper_id |-> "", doi |-> <<"DOI:", "10.1/X">>, title |-> "t3",
      authors |-> <<<<"a">>>>, year |-> 2020],
     [paper_id |-> "", doi |-> <<"10.1/x">>, title |-> "t4", authors |-> <<<<"b">>>>,
      year |-> 2021],
     [paper_id |-> "", doi |-> <<>>, title |-> "A", authors |-> <<<<"a">>>>, year |-> 2020],
     [paper_id |-> "", doi |-> <<>>, title |-> "a", authors |-> <<<<"b">>>>, year |-> 2020]}

FnSearchResponses ==
    {[kind |-> k, records |-> <<>>] : k \in {"timeout", "no_data_list"}}
    \cup {[kind |-> "records", records |-> l] : l \in SeqsUpTo(FnRetrieved, MaxRecords)}

\* question and refined_query: no query, one query, two queries, and a
\* refined query that repeats the question.
FnQueryInputs ==
    {[question |-> <<SP>>, refined |-> [kind |-> "falsy", text |-> <<>>]],
     [question |-> <<"q">>, refined |-> [kind |-> "falsy", text |-> <<>>]],
     [question |-> <<"q">>, refined |-> [kind |-> "str", text |-> <<"r", SP>>]],
     [question |-> <<"q">>, refined |-> [kind |-> "str", text |-> <<SP, "q">>]]}

ApplyRetrieveGroundedPapers ==
    /\ pc = "fn" /\ fn = NoFn
    /\ \E in \in FnQueryInputs :
         \E responses \in [1..Len(BuildDualQueries(in.question, in.refined))
                             -> FnSearchResponses] :
            fn' = [op |-> "retrieve_grounded_papers", question |-> in.question,
                   refined |-> in.refined, responses |-> responses,
                   out |-> RetrieveGroundedPapers(in.question, in.refined, responses)]
    /\ UNCHANGED pipeline

\* The longest template rendered on its own.
MaxTemplate == 4

\* Input mappings: empty; one name; two names, the value of the first
\* being the placeholder of the second, or the name of the second.
FnInputMappings ==
    {<<>>,
     <<[key |-> "a", value |-> <<"v">>]>>,
     <<[key |-> "a", value |-> Placeholder("b")], [key |-> "b", value |-> <<"w">>]>>,
     <<[key |-> "a", value |-> <<"b">>]>>,
     <<[key |-> "a", value |-> <<"b">>], [key |-> "b", value |-> <<"w">>]>>}

ApplyRenderTemplate ==
    /\ pc = "fn" /\ fn = NoFn
    /\ \E template \in SeqsUpTo({"{", "}", "a", "t"}, MaxTemplate),
          inputs \in FnInputMappings :
         fn' = [op |-> "render_template", template |-> template, inputs |-> inputs,
                out |-> RenderPlaceholders(template, inputs),
                formatted |-> Format(template, inputs)]
    /\ UNCHANGED pipeline

NextFn ==
    \/ ApplySanitizeCitations
    \/ ApplyEnsureObjections
    \/ ApplyEnsureReplies
    \/ ApplyRanking
    \/ ApplyRankingByPoints
    \/ ApplyEnsureSummaRendering
    \/ ApplyRunSummaComposerStage
    \/ ApplyValidatePayload
    \/ ApplyRunStageWithRetry
    \/ ApplyNormalizeGenerated
    \/ ApplyNormalizeCritic
    \/ ApplyRetrieveGroundedPapers
    \/ ApplyRenderTemplate

SpecFn == InitFn /\ [][NextFn]_vars

SpecAll == (Init \/ InitFn) /\ [][Next \/ NextFn]_vars

\* run_summa_v2 is sequential code: provided every oracle call and every
\* search request returns or raises, the step the controller stands at is
\* taken.
SpecLive == Spec /\ WF_vars(Next)

----------------------------------------------------------------------------
(* Properties of run_summa_v2.                                             *)

Last(s) == s[Len(s)]
Count(s, x) == Cardinality({i \in 1..Len(s) : s[i] = x})

\* The arguments the contract of run_summa_v2 accepts.
Accepted == Strip(question) # <<>> /\ top \in {1, 3}

\* C1: called with a question that is non-empty after trimming and top in
\* {1, 3}, run_summa_v2 returns a final payload or a partial-failure payload
\* whatever the oracle and the search service do: no exception escapes.
C1_NoExceptionEscapes == Accepted => outcome # "raised"

\* A run in which the generator's object holds no `hypotheses` list and the
\* ValueError of the normalizer leaves run_summa_v2.
C1_GeneratorWithoutListRaises ==
    /\ Accepted
    /\ outcome = "raised" /\ raised = "ValueError"
    /\ Last(started) = "hypothesis_generator"
    /\ Last(calls).ok

BothAttemptsFailed == Len(calls) = 2 /\ ~calls[2].ok

\* C2: when both attempts of a stage run have failed, run_summa_v2 returns
\* a partial-failure payload whose error names that stage, carries the
\* message of the second failure and retry_attempted = true, and no later
\* stage has been started.
C2_SecondFailureIsPartialFailure ==
    BothAttemptsFailed =>
        /\ outcome = "partial"
        /\ error = [stage |-> calls[2].stage, message |-> failure,
                    retry_attempted |-> TRUE]
        /\ Last(started) = calls[2].stage
        /\ pc = "done"

\* A run whose second failure has a blank message: the partial-failure
\* payload is rejected by its own validator and the rejection escapes.
C2_BlankMessageRaises ==
    /\ BothAttemptsFailed
    /\ Strip(failure) = <<>>
    /\ outcome = "raised" /\ raised = "ContractValidationError"

StageOrder == <<"problem_framer", "paper_retrieval", "literature_scout",
                "hypothesis_generator", "critic", "ranker", "summa_composer">>

\* The stage runs begun, without the diversity retries and the composer retry.
MainRuns == SelectSeq(started, LAMBDA st : st \notin {DiversityStage, ComposerRetryStage})

\* The key of stage_outputs under which the output of a stage run is stored.
OutputKey(stage) == IF stage = "paper_retrieval" THEN "retrieval" ELSE stage

\* C3: the stages are started in the order problem_framer, paper_retrieval,
\* literature_scout, hypothesis_generator, critic, ranker, summa_composer;
\* a stage is started only when its predecessor has returned and its output
\* is recorded and normalized; and no stage is started a second time, except
\* that a diversity retry follows the generator or the critic and one
\* composer retry follows the composer.
C3_FixedStageOrder ==
    /\ Len(MainRuns) <= Len(StageOrder)
    /\ MainRuns = SubSeq(StageOrder, 1, Len(MainRuns))
    /\ \A i \in 2..Len(started) :
          /\ OutputKey(started[i - 1]) \in DOMAIN stage_outputs
          /\ started[i] = DiversityStage
                => started[i - 1] \in {"hypothesis_generator", "critic"}
          /\ started[i] = ComposerRetryStage
                => started[i - 1] = "summa_composer" /\ i = Len(started)
    /\ pc = "paper_retrieval" => problem_memo # NoMemo
    /\ pc = "literature_scout" => retrieval_result # NoRetrieval
    /\ pc = "critic"
          => /\ normalized_from \in {"hypothesis_generator", DiversityStage}
             /\ Len(normalized_hypotheses) >= 3
    /\ pc = "ranker"
          => /\ normalized_from \in {"critic", DiversityStage}
             /\ Len(normalized_hypotheses) >= 3
    /\ pc = "summa_composer"
          => /\ Len(ranked_ids) = Len(normalized_hypotheses)
             /\ \A i \in 1..Len(normalized_hypotheses) : normalized_hypotheses[i].scored

\* A run that went through all seven stages and one diversity retry and
\* returned a final payload.
C3_AllStagesWithDiversityRetry ==
    /\ outcome = "final"
    /\ MainRuns = StageOrder
    /\ Count(started, DiversityStage) = 1

\* C4: within one stage run of the stage runner the oracle is invoked at
\* most twice; it is invoked a second time exactly when the first attempt
\* failed; and after an attempt that returned, the controller has left the
\* stage run.
C4_AtMostOneRetry ==
    /\ Len(calls) <= 2
    /\ \A i \in 1..Len(calls) : calls[i].stage = calls[1].stage
    /\ Len(calls) = 2 => ~calls[1].ok
    /\ (Len(calls) = 1 /\ ~calls[1].ok /\ calls[1].stage # ComposerRetryStage)
          => (pc = calls[1].stage /\ attempt = 1 /\ outcome = "running")
    /\ (calls # <<>> /\ Last(calls).ok) => (pc # Last(calls).stage /\ attempt = 0)

\* A stage run whose first attempt failed and whose second attempt returned.
C4_RetriedAndReturned == Len(calls) = 2 /\ ~calls[1].ok /\ calls[2].ok

\* C5: when the validation of the final payload fails, the composer is
\* invoked once more and the payload is validated again; when that second
\* validation fails too, run_summa_v2 returns a partial-failure payload
\* with error.stage = "summa_composer".
C5_SecondValidationFailureIsPartial ==
    /\ (validations # <<>> /\ ~validations[1]) => ComposerRetryStage \in Range(started)
    /\ (Len(validations) = 2 /\ ~validations[2])
          => (outcome = "partial" /\ error.stage = "summa_composer")

\* A run whose second validation failed and left run_summa_v2 as a
\* ContractValidationError.
C5_SecondValidationFailureRaises ==
    /\ Len(validations) = 2 /\ ~validations[2]
    /\ outcome = "raised" /\ raised = "ContractValidationError"

DiversityFailure ==
    [stage |-> DiversityStage,
     message |-> <<"Diversity retry still produced fewer than 3 distinct hypotheses.">>,
     retry_attempted |-> TRUE]

\* C6: when fewer than 3 hypotheses survive the normalization of the
\* generator's output, or of the critic's, the generator is run once more
\* as stage hypothesis_generator_diversity_retry, its objective extended by
\* the hard-constraint sentence; with 3 or more the next stage follows; and
\* when the retry's normalized output again has fewer than 3, run_summa_v2
\* returns a partial failure with error.stage =
\* "hypothesis_generator_diversity_retry".
C6_DiversityGate ==
    /\ (gate.stage \in {"hypothesis_generator", "critic"} /\ gate.count < 3)
          => Last(started) = DiversityStage
    /\ (gate.stage = "hypothesis_generator" /\ gate.count >= 3)
          => Last(started) = "critic"
    /\ (gate.stage = "critic" /\ gate.count >= 3)
          => Last(started) \in {"ranker", "summa_composer", ComposerRetryStage}
    /\ (gate.stage = DiversityStage /\ gate.count < 3)
          => (outcome = "partial" /\ error = DiversityFailure
              /\ Last(started) = DiversityStage)
    /\ (gate.stage = DiversityStage /\ gate.count >= 3)
          => (Last(started) # DiversityStage /\ error # DiversityFailure)
    /\ \A i \in 1..Len(started) :
          started[i] = DiversityStage
            => (i > 1 /\ started[i - 1] \in {"hypothesis_generator", "critic"})
    /\ \A i \in 1..Len(calls) :
          calls[i].stage = DiversityStage
            => (calls[i].objective = default_objective \o HardConstraint
                /\ calls[i].objective # default_objective)

\* A run in which the critic left two hypotheses and the diversity retry
\* after it again produced fewer than 3.
C6_SecondShortfallAfterCritic ==
    /\ gate.stage = DiversityStage /\ gate.count < 3
    /\ "critic" \in DOMAIN stage_outputs
    /\ outcome = "partial"

\* The stage runs that have returned: all but the latest begun, and the
\* latest too when its last invocation returned.
Completed ==
    {started[i] : i \in 1..(Len(started) - 1)}
    \cup (IF started # <<>> /\ calls # <<>> /\ Last(calls).stage = Last(started)
             /\ Last(calls).ok
          THEN {Last(started)} ELSE {})

\* C7: the stage_outputs of a partial-failure payload holds the output of
\* every stage run that returned before the failure, each under its own key,
\* and nothing else.
C7_PartialFailureStageOutputs ==
    outcome = "partial"
      => /\ DOMAIN stage_outputs = {OutputKey(st) : st \in Completed}
         /\ \A st \in Completed : stage_outputs[OutputKey(st)] = st

\* A partial failure of the composer's stage run after a diversity retry.
C7_PartialFailureAtComposer ==
    /\ outcome = "partial"
    /\ error.stage = "summa_composer"
    /\ DiversityStage \in DOMAIN stage_outputs
    /\ Cardinality(DOMAIN stage_outputs) = 7

\* C8: whatever problem memo the problem_framer returned and whatever the
\* search requests do, the retrieval is carried out once and completes:
\* while it runs no exception leaves it, and afterwards its result (with the
\* message of every failed request in `errors`) is recorded and
\* literature_scout has been started.
C8_RetrievalCompletes ==
    "problem_framer" \in DOMAIN stage_outputs
      => \/ /\ pc = "paper_retrieval"
            /\ outcome = "running"
            /\ search_requests < Len(queries)
         \/ /\ "retrieval" \in DOMAIN stage_outputs
            /\ Count(started, "paper_retrieval") = 1
            /\ search_requests = Len(queries)
            /\ retrieval_result.errors = errors
            /\ "literature_scout" \in Range(started)

\* A run whose problem memo holds a refined_query that is no string (and
\* not falsy): the query plan raises AttributeError before any request.
C8_NonStringRefinedQueryRaises ==
    /\ problem_memo.kind = "truthy"
    /\ outcome = "raised" /\ raised = "AttributeError"
    /\ search_requests = 0
    /\ "retrieval" \notin DOMAIN stage_outputs

\* C9: called with a question that is empty after trimming, or with a top
\* outside {1, 3}, run_summa_v2 raises ValueError, and it does so before
\* any oracle invocation, any search request and any stage output.
C9_InvalidArgumentsRejected ==
    (~Accepted /\ pc # "start")
      => /\ outcome = "raised" /\ raised = "ValueError"
         /\ calls = <<>>
         /\ search_requests = 0
         /\ started = <<>>
         /\ DOMAIN stage_outputs = {}

\* A call with a good question and top = 2, rejected.
C9_TopTwoRejected ==
    /\ Strip(question) # <<>> /\ top = 2
    /\ outcome = "raised" /\ raised = "ValueError"

\* C10: in a final payload the hypothesis ids are pairwise distinct and
\* ranked_hypothesis_ids is a permutation of them.
C10_RankedIdsPermutation ==
    outcome = "final"
      => /\ \A i, j \in 1..Len(normalized_hypotheses) :
               normalized_hypotheses[i].id = normalized_hypotheses[j].id => i = j
         /\ \A i, j \in 1..Len(ranked_ids) : ranked_ids[i] = ranked_ids[j] => i = j
         /\ Range(ranked_ids) = Range(Ids(normalized_hypotheses))
         /\ Len(ranked_ids) = Len(normalized_hypotheses)

\* A final payload whose ranking differs from the order of its hypotheses.
C10_FinalPayloadReordered ==
    /\ outcome = "final"
    /\ Len(normalized_hypotheses) >= 3
    /\ ranked_ids # Ids(normalized_hypotheses)

----------------------------------------------------------------------------
(* Properties of the normalizers, the ranker and the renderer.             *)

\* A citation is grounded in a catalog: its paper_id is the id of a paper, or
\* its normalized DOI is the normalized DOI of a paper that has one.
Grounded(c, papers) ==
    \/ c.paper_id # "" /\ \E i \in 1..Len(papers) : papers[i].paper_id = c.paper_id
    \/ \E i \in 1..Len(papers) :
          /\ papers[i].doi # <<>> /\ c.doi # NoDoi
          /\ NormalizeDoi(papers[i].doi) = NormalizeDoi(c.doi)

\* C11: every citation the citation sanitizer returns is grounded in the
\* catalog it was given, whatever the candidate list and the catalog; and
\* every citation of every hypothesis the run holds, in a final payload in
\* particular, is grounded in the catalog retrieved in that run.
C11_CitationsGrounded ==
    /\ fn.op = "sanitize_citations"
          => \A k \in 1..Len(fn.out) : Grounded(fn.out[k], fn.papers)
    /\ \A i \in 1..Len(normalized_hypotheses) :
          \A k \in 1..Len(normalized_hypotheses[i].citations) :
             Grounded(normalized_hypotheses[i].citations[k], retrieval_result.papers)

\* The sanitizer given a grounded and an ungrounded citation: one is kept.
C11_UngroundedCitationDropped ==
    /\ fn.op = "sanitize_citations"
    /\ Len(fn.citations) = 2
    /\ Len(fn.out) = 1
    /\ \E k \in 1..2 : fn.citations[k].title # "" /\ ~Grounded(fn.citations[k], fn.papers)

\* C12: whatever the raw value (no list, or items with any integer numbers,
\* repeated numbers, missing or malformed fields), the objections filler
\* returns three objections numbered 1, 2, 3 in this order, and the replies
\* filler three replies to the objections 1, 2, 3 in this order.
C12_TripletsNumberedOneTwoThree ==
    fn.op \in {"ensure_objections", "ensure_replies"} => fn.out = <<1, 2, 3>>

\* The objections filler given one usable objection numbered 0.
C12_ObjectionZeroKept ==
    /\ fn.op = "ensure_objections"
    /\ UsableNumbers(fn.raw) = <<0>>
    /\ fn.out = <<0, 1, 2>>

\* Whether the item `c` of the ranker's list is a comparison of the two
\* different hypotheses a and b of `ids`, in either direction.
Compares(c, a, b) == c.dict /\ a # b /\ {c.a, c.b} = {a, b}

\* A winner as the program reads it: "a", "b" or, for anything else, "tie".
Read(w) == IF w \in {"a", "A"} THEN "a" ELSE IF w \in {"b", "B"} THEN "b" ELSE "tie"

\* The comparison the ranker has to hold for the pair of a and b, IdLess(a, b):
\* the first usable item of the list for that pair, or the synthetic tie.
Expected(list, a, b) ==
    LET usable == {i \in 1..Len(list) : Compares(list[i], a, b)}
        first == CHOOSE i \in usable : \A j \in usable : i <= j
    IN IF usable = {}
       THEN Comparison(a, b, "tie", "tie", "tie")
       ELSE Comparison(list[first].a, list[first].b, Read(list[first].novelty),
                       Read(list[first].plausibility), Read(list[first].testability))

Ranked == fn.op \in {"apply_pairwise_ranking", "apply_pairwise_ranking_by_points"}

\* C13: for hypotheses with distinct ids and every `comparisons` list of the
\* ranker, the pairwise_record of each hypothesis holds exactly one
\* comparison per other hypothesis and nothing else: the first usable item
\* of the list for that pair (items that are no object, lack an id, pair an
\* id with itself or name an unknown id are not usable), or a synthetic
\* all-tie comparison when the list has none.
C13_OneComparisonPerPair ==
    Ranked =>
        LET n == Len(fn.hypotheses)
            id(i) == fn.hypotheses[i].id
        IN \A i \in 1..n :
              LET record == fn.out.hypotheses[i].comparisons IN
              /\ Len(record) = n - 1
              /\ \A j \in (1..n) \ {i} :
                    LET lo == IF i < j THEN id(i) ELSE id(j)
                        hi == IF i < j THEN id(j) ELSE id(i)
                    IN Cardinality({k \in 1..Len(record) :
                                       record[k] = Expected(fn.comparisons, lo, hi)}) = 1

\* The ranker's list names the pair of h1 and h2 twice, in both directions;
\* of three hypotheses the third is in no item of the list.
C13_DuplicateDroppedAndTiesAdded ==
    /\ Ranked
    /\ Len(fn.hypotheses) = 3
    /\ Len(fn.comparisons) = 2
    /\ Compares(fn.comparisons[1], HId(1), HId(2))
    /\ Compares(fn.comparisons[2], HId(1), HId(2))
    /\ fn.comparisons[1] # fn.comparisons[2]
    /\ fn.out.hypotheses[1].comparisons
          = <<Comparison(fn.comparisons[1].a, fn.comparisons[1].b, "a", "b", "tie"),
              Comparison(HId(1), HId(3), "tie", "tie", "tie")>>

\* Twice the points of a hypothesis in `dim` over the comparisons of its
\* record: 2 for a win, 1 for a tie, 0 for a loss.
TwicePoints(h, dim) ==
    LET record == h.comparisons
        Mine(c) == IF c.a = h.id THEN "a" ELSE "b"
        won == {k \in 1..Len(record) : record[k][dim] = Mine(record[k])}
        tied == {k \in 1..Len(record) : record[k][dim] = "tie"}
    IN 2 * Cardinality(won) + Cardinality(tied)

AllTies(h) ==
    \A k \in 1..Len(h.comparisons) : \A d \in Dimensions : h.comparisons[k][d] = "tie"

\* C14: for every hypothesis and every dimension the ranker's score is
\* 1 + 4 * points / D (to the third decimal), with points 1.0 per win, 0.5
\* per tie and 0 per loss over the hypothesis's comparisons and
\* D = max(N - 1, 1); a hypothesis all of whose comparisons are ties gets
\* 3.0 in novelty, plausibility, testability and overall.
C14_ScoreFromPoints ==
    Ranked =>
        LET n == Len(fn.hypotheses)
            D == IF n - 1 > 1 THEN n - 1 ELSE 1
        IN \A i \in 1..n :
              LET h == fn.out.hypotheses[i]
                  Off(d) == h.scores[d] * D - 1000 * (D + 2 * TwicePoints(h, d))
              IN /\ \A d \in Dimensions : 2 * Off(d) <= D /\ -2 * Off(d) <= D
                 /\ (n > 1 /\ AllTies(h)) =>
                       h.scores = [novelty |-> 3000, plausibility |-> 3000,
                                   testability |-> 3000, overall |-> 3000]

\* The ranker of crew_v2.py gives two hypotheses whose only comparison is a
\* tie the score 1.0 throughout.
C14_TieScoresOne ==
    /\ fn.op = "apply_pairwise_ranking"
    /\ Len(fn.hypotheses) = 2
    /\ fn.comparisons = <<>>
    /\ \A i \in 1..2 :
          /\ AllTies(fn.out.hypotheses[i])
          /\ fn.out.hypotheses[i].scores = [novelty |-> 1000, plausibility |-> 1000,
                                            testability |-> 1000, overall |-> 1000]

\* The ranker of crew_v2_postprocess.py scores as C14 says.
C14_PointsRankerScoresFromPoints ==
    fn.op = "apply_pairwise_ranking" \/ C14_ScoreFromPoints

\* overall - (0.35 * novelty + 0.30 * plausibility + 0.35 * testability) of
\* emitted scores, in units of 1e-5.
FormulaGap(s) == 100 * s.overall - (35 * s.novelty + 30 * s.plausibility + 35 * s.testability)

WithinTolerance(s) == FormulaGap(s) <= 6000 /\ -FormulaGap(s) <= 6000

\* C15: every hypothesis scored by the ranker satisfies
\* |overall - (0.35 * novelty + 0.30 * plausibility + 0.35 * testability)|
\* <= 0.06 on the scores as emitted, both when the ranker is applied on its
\* own and on the hypotheses of a run.
C15_OverallWithinTolerance ==
    /\ Ranked => \A i \in 1..Len(fn.out.hypotheses) :
                    WithinTolerance(fn.out.hypotheses[i].scores)
    /\ \A i \in 1..Len(normalized_hypotheses) :
          normalized_hypotheses[i].scored => WithinTolerance(normalized_hypotheses[i].scores)

\* Four hypotheses, one of them with scores in thirds: the emitted overall
\* differs from the weighted sum of the emitted scores.
C15_RoundedScoresDiffer ==
    /\ Ranked
    /\ Len(fn.hypotheses) = 4
    /\ \E i \in 1..4 :
          /\ fn.out.hypotheses[i].scores.novelty \notin {1000, 3000, 5000}
          /\ FormulaGap(fn.out.hypotheses[i].scores) # 0

\* C16: for 1 to 5 hypotheses and every ranker output, each of the four
\* scores of every hypothesis lies in [1.0, 5.0].
C16_ScoresInRange ==
    (Ranked /\ Len(fn.hypotheses) \in 1..5) =>
        \A i \in 1..Len(fn.out.hypotheses) :
           \A k \in {"novelty", "plausibility", "testability", "overall"} :
              /\ 1000 <= fn.out.hypotheses[i].scores[k]
              /\ fn.out.hypotheses[i].scores[k] <= 5000

\* Five hypotheses ranked by points: one wins novelty against all others
\* and one loses it against all others.
C16_BothEndsOfRange ==
    /\ fn.op = "apply_pairwise_ranking_by_points"
    /\ Len(fn.hypotheses) = 5
    /\ \E i, j \in 1..5 :
          /\ fn.out.hypotheses[i].scores.novelty = 5000
          /\ fn.out.hypotheses[j].scores.novelty = 1000

\* The blocks of a rendering split at the lines holding only '---': each
\* block is given by the position of its first line that is not blank.
BlockStarts(r) ==
    {i \in 1..Len(r) :
        /\ r[i] \notin {Rule, SP}
        /\ \A j \in 1..(i - 1) :
              r[j] \notin {Rule, SP} => \E k \in (j + 1)..(i - 1) : r[k] = Rule}

\* The lines of the block that starts at position i.
BlockLines(r, i) == {r[k] : k \in {m \in i..Len(r) : \A x \in i..m : r[x] # Rule}}

HasAllMarkers(lines) ==
    /\ \E l \in lines : l = "Question: q"
    /\ \E l \in lines : l \in {"Objections:", "Replies to objections:"}
    /\ \E l \in lines : l \in {"On the contrary...", "On the contrary, one may hold that s",
                               "On the contrary, the strongest objection states that o",
                               "On the contrary, I answer that s"}
    /\ \E l \in lines : l \in {"I answer that...", "On the contrary, I answer that s"}
    /\ \E l \in lines : l = "Replies to objections:"
    /\ \E l \in lines : l \in {"1. o", "Reply to Objection 1. r"}
    /\ \E l \in lines : l \in {"2. o", "Reply to Objection 2. r"}
    /\ \E l \in lines : l \in {"3. o", "Reply to Objection 3. r"}

\* C17: the summa_rendering of every final payload, split into blocks at
\* the lines holding only '---', has in every block the markers
\* "question:", "objections:", "on the contrary", "i answer that",
\* "replies to objections" and the tokens "1.", "2.", "3.", and no line of
\* it holds both "on the contrary" and "i answer that".
C17_FinalRenderingHasMarkers ==
    outcome = "final" =>
        /\ \A i \in BlockStarts(summa_rendering) :
              HasAllMarkers(BlockLines(summa_rendering, i))
        /\ \A k \in 1..Len(summa_rendering) :
              summa_rendering[k] # "On the contrary, I answer that s"

\* C18: for every raw rendering, the rendering the Summa Renderer returns
\* has exactly min(top, number of ranked ids) blocks.
C18_ExactlyTopBlocks ==
    fn.op = "ensure_summa_rendering" =>
        Cardinality(BlockStarts(fn.out))
           = IF fn.top < Len(fn.ranked) THEN fn.top ELSE Len(fn.ranked)

\* top = 1 with five hypotheses and a raw rendering of two well-formed
\* blocks: the rendering returned has two blocks.
C18_TwoBlocksForTopOne ==
    /\ fn.op = "ensure_summa_rendering"
    /\ fn.top = 1 /\ Len(fn.hypotheses) = 5
    /\ fn.out = fn.raw
    /\ Cardinality(BlockStarts(fn.out)) = 2

\* A rendering the renderer writes itself has exactly min(top, number of
\* ranked ids) blocks.
C18_BuiltRenderingHasTopBlocks ==
    (fn.op = "ensure_summa_rendering" /\ fn.out # Strip(fn.raw)) => C18_ExactlyTopBlocks

\* The lines of an output that are neither blank nor a fence.
Prose(lines) == SelectSeq(lines, LAMBDA l : l \notin {SP, Fence, FenceJson, FenceMarkdown})

NoJsonMessage == <<"No JSON object found in stage output: ">>

\* C19: when the composer's output is non-empty text that is not a JSON
\* object with a non-empty summa_rendering, the composer stage succeeds with
\* that text without its fences as the rendering, and a run is never failed
\* because the composer answered with plain text instead of JSON.
C19_PlainTextComposerAccepted ==
    /\ (/\ fn.op = "run_summa_composer_stage"
        /\ Strip(fn.raw) # <<>>
        /\ \A k \in 1..Len(fn.raw) : fn.raw[k] # "{rendering}")
          => /\ fn.out.ok
             /\ Prose(fn.out.summa_rendering) = Prose(fn.raw)
             /\ fn.out.summa_rendering[1] \notin {SP, Fence, FenceMarkdown}
             /\ fn.out.summa_rendering[Len(fn.out.summa_rendering)] \notin {SP, Fence}
    /\ ~(/\ outcome = "partial"
         /\ error.stage = "summa_composer"
         /\ error.message = NoJsonMessage)

\* Both attempts of the composer answered with text that holds no JSON and
\* the run ended as a partial failure at the composer.
C19_PlainTextFailsRun ==
    /\ outcome = "partial"
    /\ error = [stage |-> "summa_composer", message |-> NoJsonMessage,
                retry_attempted |-> TRUE]
    /\ Len(calls) = 2 /\ ~calls[1].ok /\ ~calls[2].ok

\* The composer stage of crew_v2_stages.py accepts every output that holds
\* prose.
C19_ProseAcceptedByComposerStage ==
    (fn.op = "run_summa_composer_stage" /\ Prose(fn.raw) # <<>>) => fn.out.ok

\* C22: for every citation list and every catalog, applying the citation
\* sanitizer to its own output drops nothing and changes nothing.
C22_SanitizerIdempotent ==
    fn.op = "sanitize_citations" => fn.again = fn.out

\* A grounded citation whose only author is blank is kept with an empty
\* authors list by the first pass and dropped by the second.
C22_BlankAuthorDroppedBySecondPass ==
    /\ fn.op = "sanitize_citations"
    /\ Len(fn.citations) = 1
    /\ fn.citations[1].authors = <<<<SP>>>>
    /\ Len(fn.out) = 1 /\ fn.out[1].authors = <<>>
    /\ fn.again = <<>>

\* The second pass changes nothing when every citation kept by the first
\* has an author.
C22_IdempotentWithAuthors ==
    (fn.op = "sanitize_citations" /\ \A k \in 1..Len(fn.out) : fn.out[k].authors # <<>>)
        => fn.again = fn.out

\* C23: for both triplet fillers, applying the filler to its own output
\* returns that output, whatever numbers the input held.
C23_FillersIdempotent ==
    fn.op \in {"ensure_objections", "ensure_replies"} => fn.again = fn.out

\* The filler has acted on a list with a number outside 1..3 and a repeated
\* number, and a second application returns the same list.
C23_OddNumbersFilledOnce ==
    /\ fn.op = "ensure_objections"
    /\ UsableNumbers(fn.raw) = <<4, 1, 1>>
    /\ fn.out = <<1, 1, 2>>
    /\ fn.again = fn.out

\* C24: in every run the composer is invoked at most three times (two
\* attempts of the stage runner and one after a failed validation) and the
\* validator runs at most twice; the invocation after validation happens
\* only when the first validation failed, and the run ends with it.
C24_ComposerAtMostThrice ==
    /\ composer_calls <= 3
    /\ Len(validations) <= 2
    /\ (pc = ComposerRetryStage \/ (calls # <<>> /\ calls[1].stage = ComposerRetryStage))
          => (validations # <<>> /\ ~validations[1])
    /\ (calls # <<>> /\ calls[1].stage = ComposerRetryStage)
          => (pc = "done" /\ Len(calls) = 1)
    /\ composer_calls = 3 => (calls # <<>> /\ calls[1].stage = ComposerRetryStage)

\* A run with two attempts of the stage runner, a failed validation, the
\* third invocation and the second validation.
C24_ThreeInvocationsTwoValidations ==
    /\ composer_calls = 3
    /\ Len(validations) = 2
    /\ calls[1].stage = ComposerRetryStage
    /\ pc = "done"

\* A citation of a payload names a source: a paper_id or a DOI that is not
\* blank.
NamesSource(c) == c.paper_id # "" \/ (c.doi # NoDoi /\ Strip(c.doi) # <<>>)

\* The citations of all hypotheses of a payload.
PayloadCitations(hyps) ==
    {hyps[i].citations[k] : <<i, k>> \in
        {ik \in (1..Len(hyps)) \X (1..MaxCites + 1) : ik[2] <= Len(hyps[ik[1]].citations)}}

C25_UnknownPaperAcceptedWithoutCatalog ==
    /\ fn.op = "validate_v2_payload"
    /\ ~fn.grounded_papers.given
    /\ Len(fn.hypotheses[1].citations) = 1
    /\ fn.hypotheses[1].citations[1].paper_id = "p9"
    /\ fn.out

\* C26: whenever the first attempt of a stage run failed with a message,
\* whatever the message, the description of the second attempt is the
\* rendered description followed by the retry preamble with that message
\* and the instruction to return strict JSON only.
C26_SecondAttemptCarriesPreamble ==
    (fn.op = "run_stage_with_retry" /\ Len(fn.out.descriptions) = 2) =>
        fn.out.descriptions[2] =
            RenderTemplate(fn.stage, fn.objective)
            \o <<"\n\nRetry context:\nPrevious attempt failed with: ">>
            \o fn.out.messages[1]
            \o <<"\nYou must return strict JSON only, parseable by json.loads.">>

\* The first attempt failed with an empty message and the second attempt
\* was given the rendered description alone.
C26_EmptyMessageNoPreamble ==
    /\ fn.op = "run_stage_with_retry"
    /\ fn.raws[1].kind = "error" /\ fn.raws[1].msg = <<>>
    /\ Len(fn.out.descriptions) = 2
    /\ fn.out.descriptions[2] = RenderTemplate(fn.stage, fn.objective)

\* The second attempt carries the preamble when the first failure's message
\* is not empty.
C26_PreambleForNonEmptyMessage ==
    (/\ fn.op = "run_stage_with_retry"
     /\ Len(fn.out.descriptions) = 2
     /\ fn.out.messages[1] # <<>>) =>
        fn.out.descriptions[2] =
            RenderTemplate(fn.stage, fn.objective)
            \o <<"\n\nRetry context:\nPrevious attempt failed with: ">>
            \o fn.out.messages[1]
            \o <<"\nYou must return strict JSON only, parseable by json.loads.">>

\* The place of the hypothesis `id` in the input and its emitted scores.
PlaceOf(hyps, id) == (CHOOSE i \in 1..Len(hyps) : hyps[i].id = id)
Emitted(hyps, id) == hyps[PlaceOf(hyps, id)].scores
SortKey(sc) == <<sc.overall, sc.novelty, sc.testability, sc.plausibility>>

\* Tuple u comes strictly before tuple v in descending order.
Above(u, v) == \E i \in 1..4 : u[i] > v[i] /\ \A j \in 1..(i - 1) : u[j] = v[j]

\* C27: the ranked ids are in descending order of the key (overall,
\* novelty, testability, plausibility) of the emitted scores, and ids whose
\* whole keys are equal stay in input order.
C27_RankedByKeyStable ==
    fn.op \in {"apply_pairwise_ranking", "apply_pairwise_ranking_by_points"} =>
        \A k \in 1..(Len(fn.out.ranked) - 1) :
            LET a == fn.out.ranked[k]
                b == fn.out.ranked[k + 1]
                ka == SortKey(Emitted(fn.out.hypotheses, a))
                kb == SortKey(Emitted(fn.out.hypotheses, b))
            IN \/ Above(ka, kb)
               \/ ka = kb /\ PlaceOf(fn.out.hypotheses, a) < PlaceOf(fn.out.hypotheses, b)

\* A ranking that moves a later hypothesis to the front and keeps two
\* hypotheses of equal key in input order.
C27_ReorderedWithTie ==
    /\ fn.op = "apply_pairwise_ranking_by_points"
    /\ Len(fn.out.ranked) >= 3
    /\ fn.out.ranked[1] # fn.out.hypotheses[1].id
    /\ \E k \in 1..(Len(fn.out.ranked) - 1) :
          /\ SortKey(Emitted(fn.out.hypotheses, fn.out.ranked[k]))
               = SortKey(Emitted(fn.out.hypotheses, fn.out.ranked[k + 1]))
          /\ PlaceOf(fn.out.hypotheses, fn.out.ranked[k])
               < PlaceOf(fn.out.hypotheses, fn.out.ranked[k + 1])

\* The objects of a `hypotheses` list, in order.
Objects(items) == SelectSeq(items, LAMBDA item : item.dict)

\* C28: the generator normalizer returns at most 5 hypotheses, one for each
\* of the first objects of the list in their order; their ids are not empty
\* and pairwise distinct, a provided id is kept unless an earlier
\* hypothesis has it, every other id is a synthesized h{n}; each hypothesis
\* has at least one falsifiable prediction and one minimal experiment.
C28_GeneratedNormalized ==
    fn.op = "normalize_generated_hypotheses" =>
        LET out == fn.out
            objects == Objects(fn.items)
        IN /\ Len(out) <= 5
           /\ Len(out) = (IF Len(objects) < 5 THEN Len(objects) ELSE 5)
           /\ \A i \in 1..Len(out) :
                 /\ out[i].id # NoId
                 /\ \A j \in 1..Len(out) : out[i].id = out[j].id => i = j
                 /\ IF objects[i].id # NoId /\ \A j \in 1..(i - 1) : out[j].id # objects[i].id
                    THEN out[i].id = objects[i].id
                    ELSE out[i].id[1] = "h" /\ out[i].id[2] >= 1
                 /\ Len(out[i].falsifiable_predictions) >= 1
                 /\ Len(out[i].minimal_experiments) >= 1
                 /\ objects[i].falsifiable_predictions = FnSomeTexts
                       => out[i].falsifiable_predictions = <<<<"p">>>>

\* Six objects are cut to five; a repeated id and missing ids were replaced
\* by synthesized ones and a missing prediction list by the fallback text.
C28_SixCutToFive ==
    /\ fn.op = "normalize_generated_hypotheses"
    /\ Len(Objects(fn.items)) = 6
    /\ Len(fn.out) = 5
    /\ fn.items[1].id = HId(2) /\ fn.items[2].id = NoId /\ fn.items[3].id = HId(2)
    /\ fn.out[2].id = HId(3) /\ fn.out[3].id = HId(5)
    /\ fn.out[2].falsifiable_predictions = <<<<"Prediction not provided.">>>>

\* A catalog entry satisfies the Citation invariants: a title, at least one
\* author, an integer year, and a paper_id or a DOI.
CitablePaper(p) ==
    p.title # "" /\ p.authors # <<>> /\ p.year # 0 /\ (p.paper_id # "" \/ p.doi # <<>>)

\* C29: a normalized hypothesis of a run has an empty citation list only if
\* no entry of the catalog satisfies the Citation invariants (otherwise the
\* normalizer has put the first such entries in its place).
C29_EmptyCitationsOnlyWithoutCitablePaper ==
    \A i \in 1..Len(normalized_hypotheses) :
        normalized_hypotheses[i].citations = <<>>
            => \A k \in 1..Len(retrieval_result.papers) :
                  ~CitablePaper(retrieval_result.papers[k])

\* The critic's hypotheses were normalized against a catalog with a
\* citable paper, and one of them is left without citations.
C29_NoFallbackInRun ==
    /\ normalized_from = "critic"
    /\ retrieval_result.papers # <<>>
    /\ CitablePaper(retrieval_result.papers[1])
    /\ \E i \in 1..Len(normalized_hypotheses) : normalized_hypotheses[i].citations = <<>>

\* The generator normalizer of crew_v2_postprocess.py leaves no hypothesis
\* without citations when the catalog holds a citable paper of a year in
\* 1800..2100.
C29_PostprocessFallsBack ==
    fn.op = "normalize_generated_hypotheses" =>
        \A i \in 1..Len(fn.out) :
            /\ fn.out[i].citations # <<>>
            /\ fn.items # <<>> /\ Objects(fn.items)[i].citations = <<CiteP9>>
                  => fn.out[i].citations = FallbackGroundedCitations(<<P1>>, 3)

\* An item of the critic's list is usable: an object with an id.
UsableItem(item) == item.dict /\ item.id # NoId

\* The critic's object provides no usable hypothesis list: `hypotheses` is
\* absent, no list, empty, or a list without usable item.
NoUsableList(critic) ==
    \/ ~critic.listed
    \/ \A k \in 1..Len(critic.items) : ~UsableItem(critic.items[k])

\* C30: for every critic output without usable hypothesis list the critic
\* normalizer returns the previous hypotheses unchanged.
C30_PreviousPassedThrough ==
    (fn.op = "normalize_critic_hypotheses" /\ NoUsableList(fn.critic))
        => (fn.out.usable /\ fn.out.hypotheses = fn.previous)

\* A list without usable item makes the normalizer raise ValueError.
C30_UnusableItemsRaise ==
    /\ fn.op = "normalize_critic_hypotheses"
    /\ fn.critic.listed /\ fn.critic.items # <<>>
    /\ NoUsableList(fn.critic)
    /\ ~fn.out.usable

\* An empty list returns previous hypotheses that had no triplets with
\* triplets.
C30_PreviousGainTriplets ==
    /\ fn.op = "normalize_critic_hypotheses"
    /\ fn.critic = [listed |-> TRUE, items |-> <<>>]
    /\ fn.previous[1].objections = <<>>
    /\ fn.out.usable
    /\ fn.out.hypotheses[1].objections = <<1, 2, 3>>

\* When `hypotheses` is absent, no list or empty, the previous hypotheses
\* are returned in their order with their ids, citations and triplets,
\* missing triplets filled in.
C30_PreviousPassedThroughFilled ==
    (fn.op = "normalize_critic_hypotheses" /\ (~fn.critic.listed \/ fn.critic.items = <<>>))
        => /\ fn.out.usable
           /\ Len(fn.out.hypotheses) = Len(fn.previous)
           /\ \A i \in 1..Len(fn.previous) :
                 LET h == fn.out.hypotheses[i]
                     was == fn.previous[i]
                 IN /\ h.id = was.id /\ h.citations = was.citations
                    /\ h.objections = (IF was.objections = <<>> THEN <<1, 2, 3>>
                                       ELSE was.objections)
                    /\ h.replies = (IF was.replies = <<>> THEN <<1, 2, 3>> ELSE was.replies)

----------------------------------------------------------------------------
(* Properties of the paper retriever, the template renderer and the run.   *)

\* The papers the search service returned, in query order.
Retrieved(responses) ==
    LET RECURSIVE Cat(_)
        Cat(i) == IF i > Len(responses) THEN <<>>
                  ELSE (IF responses[i].kind = "records" THEN responses[i].records ELSE <<>>)
                       \o Cat(i + 1)
    IN Cat(1)

\* C31: the retriever's status is "ok" exactly when a paper was retrieved;
\* otherwise it is "no_grounded_citations_found" and the message is "no
\* grounded citations found", with the suffix " (API failure or empty
\* results)" exactly when `errors` holds an error.
C31_StatusAndMessage ==
    fn.op = "retrieve_grounded_papers" =>
        /\ fn.out.status = "ok" <=> Retrieved(fn.responses) # <<>>
        /\ fn.out.status # "ok" =>
              /\ fn.out.status = "no_grounded_citations_found"
              /\ fn.out.message =
                    (IF fn.out.errors # <<>>
                     THEN <<"no grounded citations found (API failure or empty results)">>
                     ELSE <<"no grounded citations found">>)

\* Without any query the retriever records an error and returns the
\* message without suffix.
C31_NoQueryErrorWithoutSuffix ==
    /\ fn.op = "retrieve_grounded_papers"
    /\ fn.out.queries = <<>>
    /\ fn.out.errors # <<>>
    /\ fn.out.message = <<"no grounded citations found">>

\* The status and the message are as stated whenever there is a query.
C31_StatusAndMessageWithQuery ==
    (fn.op = "retrieve_grounded_papers" /\ fn.out.queries # <<>>) =>
        /\ fn.out.status = "ok" <=> Retrieved(fn.responses) # <<>>
        /\ fn.out.status # "ok" =>
              /\ fn.out.status = "no_grounded_citations_found"
              /\ fn.out.message =
                    (IF fn.out.errors # <<>>
                     THEN <<"no grounded citations found (API failure or empty results)">>
                     ELSE <<"no grounded citations found">>)

\* Two papers have the same deduplication key: the same paper_id; or no
\* paper_id and the same normalized DOI; or neither and the same lowercase
\* title and year.
SameKey(p, q) ==
    IF p.paper_id # "" \/ q.paper_id # "" THEN p.paper_id = q.paper_id
    ELSE IF p.doi # <<>> \/ q.doi # <<>>
         THEN p.doi # <<>> /\ q.doi # <<>> /\ NormalizeDoi(p.doi) = NormalizeDoi(q.doi)
         ELSE Lower(p.title) = Lower(q.title) /\ p.year = q.year

\* C32: no two papers of the catalog have the same deduplication key; the
\* paper kept for a key is the first retrieved with it, in query order; and
\* every retrieved paper's key is in the catalog.
C32_CatalogDeduplicated ==
    fn.op = "retrieve_grounded_papers" =>
        LET got == Retrieved(fn.responses)
            papers == fn.out.papers
        IN /\ \A i, j \in 1..Len(papers) : SameKey(papers[i], papers[j]) => i = j
           /\ \A i \in 1..Len(papers) :
                 \E k \in 1..Len(got) :
                    /\ got[k] = papers[i]
                    /\ \A l \in 1..(k - 1) : ~SameKey(got[l], got[k])
           /\ \A k \in 1..Len(got) : \E i \in 1..Len(papers) : SameKey(got[k], papers[i])

\* Two queries returned papers with one paper_id and papers whose DOIs
\* differ in writing only; the first of each is in the catalog.
C32_FirstOfEachKeyKept ==
    /\ fn.op = "retrieve_grounded_papers"
    /\ Len(fn.responses) = 2
    /\ Len(Retrieved(fn.responses)) = 4
    /\ Len(fn.out.papers) = 2
    /\ fn.out.papers[1] = P1
    /\ fn.out.papers[2].doi = <<"10.1/x">>
    /\ fn.responses[2].records[1].paper_id = "p1"

\* The template with every placeholder of a declared name replaced by its
\* value and every other character kept.
Substituted(template, inputs) ==
    LET Named(i) == {k \in 1..Len(inputs) :
                        /\ i + 2 <= Len(template)
                        /\ template[i] = "{" /\ template[i + 1] = inputs[k].key
                        /\ template[i + 2] = "}"}
        RECURSIVE Go(_)
        Go(i) ==
            IF i > Len(template) THEN <<>>
            ELSE IF Named(i) # {}
                 THEN inputs[CHOOSE k \in Named(i) : TRUE].value \o Go(i + 3)
                 ELSE <<template[i]>> \o Go(i + 1)
    IN Go(1)

\* C33: for every template and every input mapping the rendering of the
\* stage runner never fails and is the template with each placeholder of
\* a declared name replaced by its value, every other character unchanged.
C33_RenderingSubstitutes ==
    fn.op = "render_template" =>
        /\ fn.formatted.ok
        /\ fn.formatted.text = Substituted(fn.template, fn.inputs)
        /\ fn.out = Substituted(fn.template, fn.inputs)

\* The rendering of crew_v2.py fails on a template with a literal brace.
C33_FormatFailsOnLiteralBrace ==
    /\ fn.op = "render_template"
    /\ fn.template = <<"{", "t", "}">>
    /\ fn.inputs = <<[key |-> "a", value |-> <<"v">>]>>
    /\ ~fn.formatted.ok
    /\ fn.out = fn.template

\* _render_template replaces a placeholder that a value brought in.
C33_ValueRenderedAgain ==
    /\ fn.op = "render_template"
    /\ fn.template = Placeholder("a")
    /\ Len(fn.inputs) = 2 /\ fn.inputs[1].value = Placeholder("b")
    /\ fn.out = <<"w">>

\* _render_template substitutes as stated when no second name is declared.
C33_OneNameSubstituted ==
    (fn.op = "render_template" /\ Len(fn.inputs) <= 1)
        => fn.out = Substituted(fn.template, fn.inputs)

\* C34: whenever the critic or the ranker is invoked, and in every final
\* payload, there are at least 3 and at most 5 normalized hypotheses.
C34_ThreeToFiveHypotheses ==
    (pc \in {"critic", "ranker"} \/ outcome = "final")
        => (Len(normalized_hypotheses) >= 3 /\ Len(normalized_hypotheses) <= 5)

\* A final payload of 5 hypotheses, the critic having listed 6.
C34_FinalPayloadOfFive ==
    /\ outcome = "final"
    /\ Len(normalized_hypotheses) = 5
    /\ DiversityStage \notin DOMAIN stage_outputs

\* The ranker invoked with the 3 hypotheses of a diversity retry that
\* followed a critic that had left 2.
C34_RankerAfterDiversityRetry ==
    /\ pc = "ranker" /\ calls # <<>>
    /\ normalized_from = DiversityStage
    /\ Len(normalized_hypotheses) = 3

\* C35: in every payload returned, final or partial-failure,
\* ranked_hypothesis_ids is empty or a permutation of the payload's
\* hypothesis ids, and it is empty exactly when the run failed before the
\* pairwise ranking was completed.
C35_RankedIdsEmptyOrPermutation ==
    outcome \in {"final", "partial"}
      => /\ \/ ranked_ids = <<>>
            \/ /\ Len(ranked_ids) = Len(normalized_hypotheses)
               /\ \A i, j \in 1..Len(ranked_ids) : ranked_ids[i] = ranked_ids[j] => i = j
               /\ \A i \in 1..Len(normalized_hypotheses) :
                     \E j \in 1..Len(ranked_ids) : ranked_ids[j] = normalized_hypotheses[i].id
         /\ ranked_ids = <<>>
              <=> (outcome = "partial" /\ "ranker" \notin DOMAIN stage_outputs)

\* A partial-failure payload of a run whose composer failed twice: it
\* carries the ranking.
C35_PartialPayloadWithRanking ==
    /\ outcome = "partial" /\ error.stage = "summa_composer"
    /\ Len(ranked_ids) >= 3
    /\ ranked_ids # Ids(normalized_hypotheses)

\* A partial-failure payload of a run whose ranker failed twice: it
\* carries the critic's hypotheses and no ranking.
C35_PartialPayloadWithoutRanking ==
    /\ outcome = "partial" /\ error.stage = "ranker"
    /\ Len(normalized_hypotheses) >= 3 /\ ranked_ids = <<>>

\* The stage runs that pass through _run_stage_with_retry.
RetriedStages ==
    {"problem_framer", "literature_scout", "hypothesis_generator", DiversityStage,
     "critic", "ranker", "summa_composer"}

RunsOf(stage) == Cardinality({i \in 1..Len(started) : started[i] = stage})

\* Two invocations for each of the six stages and for each of two diversity
\* retries, one for the validator-triggered retry (17 in all), and two
\* search requests: no stage run is begun more often, no stage run holds
\* more invocations (calls holds those of the latest run invoked).
WithinCallBounds ==
    /\ \A stage \in RetriedStages \ {DiversityStage} : RunsOf(stage) <= 1
    /\ RunsOf(DiversityStage) <= 2
    /\ RunsOf(ComposerRetryStage) <= 1
    /\ \A i \in 1..Len(started) :
          started[i] \in RetriedStages \cup {ComposerRetryStage, "paper_retrieval"}
    /\ \A i \in 1..Len(calls) :
          calls[i].stage = calls[1].stage /\ RunsOf(calls[i].stage) >= 1
    /\ Len(calls) <= (IF calls # <<>> /\ calls[1].stage = ComposerRetryStage
                      THEN 1 ELSE 2)
    /\ search_requests <= 2

\* C36: every call of the pipeline terminates, with a final payload, a
\* partial-failure payload or an invalid-argument error, after at most 17
\* oracle invocations and at most 2 search requests.
C36_TerminatesWithinBounds ==
    /\ <>(outcome \in {"final", "partial"} \/ (outcome = "raised" /\ ~Accepted))
    /\ []WithinCallBounds

\* A run of accepted arguments that ends with the ContractValidationError
\* of the second validation, after the one validator-triggered invocation.
C36_EndsWithEscapedError ==
    /\ Accepted /\ outcome = "raised" /\ raised = "ContractValidationError"
    /\ Last(started) = ComposerRetryStage /\ Len(calls) = 1
    /\ search_requests = 2

\* Every call terminates, in some way, within the bounds.
C36_TerminatesSomehow ==
    /\ <>(outcome # "running")
    /\ []WithinCallBounds

\* A run of nine stage runs: the six stages, both diversity retries and the
\* validator-triggered retry.
C36_NineStageRuns ==
    /\ RunsOf(DiversityStage) = 2 /\ RunsOf(ComposerRetryStage) = 1
    /\ Len(calls) = 1 /\ search_requests = 2

\* C37: the validator-triggered composer retry changes only
\* summa_rendering: the question, the hypotheses and ranked_hypothesis_ids
\* of the payload that is revalidated are those of the payload assembled
\* first (the domain is the same constant in both).
C37_RetryChangesOnlyRendering ==
    [][pc = ComposerRetryStage
         => /\ question' = question
            /\ normalized_hypotheses' = normalized_hypotheses
            /\ ranked_ids' = ranked_ids]_vars

\* A run whose payload was revalidated after the retry, its ranking not in
\* the order of its hypotheses.
C37_RevalidatedAfterRetry ==
    /\ pc = "done" /\ Len(validations) = 2
    /\ ComposerRetryStage \in DOMAIN stage_outputs
    /\ summa_rendering # <<>>
    /\ ranked_ids # <<>> /\ ranked_ids # Ids(normalized_hypotheses)

\* The ids the critic's list names.
Listed(critic) ==
    {critic.items[i].id : i \in {k \in 1..Len(critic.items) : critic.items[k].dict}}

\* C38 (as claimed): the set of hypothesis ids after the critic
\* normalization is a subset of the set of ids passed to the critic.
C38_CriticIntroducesNothing ==
    (fn.op = "normalize_critic_hypotheses" /\ fn.out.usable)
        => Range(Ids(fn.out.hypotheses)) \subseteq Range(Ids(fn.previous))

\* C38 (amended): every hypothesis id after the critic normalization is an
\* id passed to the critic or an id that the critic's list names; when the
\* critic names only ids passed to it, no hypothesis is introduced.
C38_IdsPassedOrListed ==
    (fn.op = "normalize_critic_hypotheses" /\ fn.out.usable)
        => /\ Range(Ids(fn.out.hypotheses))
                \subseteq (Range(Ids(fn.previous)) \cup (Listed(fn.critic) \ {NoId}))
           /\ Listed(fn.critic) \subseteq (Range(Ids(fn.previous)) \cup {NoId})
                => Range(Ids(fn.out.hypotheses)) \subseteq Range(Ids(fn.previous))

\* The critic was passed h1 alone and lists h2: h2 is a hypothesis after
\* the normalization.
C38_CriticAddsListedHypothesis ==
    /\ fn.op = "normalize_critic_hypotheses"
    /\ Ids(fn.previous) = <<HId(1)>>
    /\ HId(2) \in Listed(fn.critic) /\ NoId \in Listed(fn.critic)
    /\ Ids(fn.out.hypotheses) = <<HId(2)>>

\* The sum of f[1] .. f[n].
RECURSIVE SumTo(_, _)
SumTo(f, n) == IF n = 0 THEN 0 ELSE f[n] + SumTo(f, n - 1)

\* The comparisons of the record of hypothesis h that are ties in `dim`.
TiesIn(h, dim) ==
    Cardinality({k \in 1..Len(h.comparisons) : h.comparisons[k][dim] = "tie"})

\* C39: in the pairwise ranker, for every dimension the points summed over
\* all hypotheses are N(N-1)/2, the points of each hypothesis are its
\* wins_by_dimension plus half the number of its ties, and for N >= 2 the
\* scores before rounding, 1 + 4 * points / (N-1), sum to 3N. Points are
\* kept doubled and the scores multiplied by N-1.
C39_PointsAndScoresSum ==
    fn.op = "apply_pairwise_ranking_by_points" =>
        LET n == Len(fn.hypotheses) IN
        \A d \in Dimensions :
            /\ SumTo([i \in 1..n |-> fn.points[i][d]], n) = n * (n - 1)
            /\ \A i \in 1..n :
                  fn.points[i][d] = 2 * fn.out.hypotheses[i].wins[d]
                                    + TiesIn(fn.out.hypotheses[i], d)
            /\ n >= 2 => SumTo([i \in 1..n |-> (n - 1) + 2 * fn.points[i][d]], n)
                            = 3 * n * (n - 1)

\* Four hypotheses of which one has one win and two ties in novelty, 2
\* points, and another no win and one tie, half a point.
C39_WinsAndTiesMixed ==
    /\ fn.op = "apply_pairwise_ranking_by_points"
    /\ Len(fn.hypotheses) = 4
    /\ \E i, j \in 1..4 :
          /\ fn.out.hypotheses[i].wins.novelty = 1 /\ fn.points[i].novelty = 4
          /\ fn.out.hypotheses[j].wins.novelty = 0 /\ fn.points[j].novelty = 1

\* C40: the result of the pairwise ranker does not depend on which
\* hypothesis of a comparison is named a and which b: with one comparison
\* (a = x, b = y) replaced by (a = y, b = x), its winners "a" turned into
\* "b" and "b" into "a", the scores, the wins_by_dimension and
\* ranked_hypothesis_ids are the same.
C40_SidesExchangeable ==
    fn.op = "apply_pairwise_ranking_by_points" =>
        \A k \in 1..Len(fn.swapped) :
            /\ fn.swapped[k].ranked = fn.out.ranked
            /\ \A i \in 1..Len(fn.out.hypotheses) :
                  /\ fn.swapped[k].hypotheses[i].id = fn.out.hypotheses[i].id
                  /\ fn.swapped[k].hypotheses[i].scores = fn.out.hypotheses[i].scores
                  /\ fn.swapped[k].hypotheses[i].wins = fn.out.hypotheses[i].wins

\* Three hypotheses ranked out of their order by comparisons of which the
\* first has a winner and a tie; with its sides exchanged the records name
\* the other side, the ranking is the same.
C40_ExchangedAndReordered ==
    /\ fn.op = "apply_pairwise_ranking_by_points"
    /\ Len(fn.hypotheses) = 3 /\ Len(fn.comparisons) = 3
    /\ fn.comparisons[1].novelty = "b" /\ fn.comparisons[1].plausibility = "tie"
    /\ fn.out.ranked # Ids(fn.hypotheses)
    /\ fn.swapped[1].hypotheses[1].comparisons # fn.out.hypotheses[1].comparisons
    /\ fn.swapped[1].ranked = fn.out.ranked

====
